---- MODULE Spec2Model ----
(***************************************************************************)
(* The A2A task lifecycle engine (a2a.server.task_manager.TaskManager)     *)
(* over the in-memory task store (a2a.server.task_store.InMemoryTaskStore) *)
(* and the FastAPI route that wraps send_task_message.                     *)
(*                                                                         *)
(* Objects and aliasing.  InMemoryTaskStore keeps references: get_task     *)
(* returns the very object held in _tasks, and update_task stores the      *)
(* object it is handed.  The model therefore has a heap of Task objects    *)
(* and the store maps an id to a reference into that heap; every           *)
(* assignment to task.status / task.history made by an engine coroutine    *)
(* acts on the heap object at once, before any update_task.                *)
(*                                                                         *)
(* Scheduling.  The engine runs as asyncio coroutines on one event loop.   *)
(* The coroutine methods of InMemoryTaskStore contain no await, so         *)
(* awaiting them runs them to completion without returning to the loop.    *)
(* Control changes hands only where a coroutine awaits the Message         *)
(* Handler (on_message_received), awaits one of the on_task_* hooks, or    *)
(* where an async generator yields an event.  One action is the code       *)
(* between two such points.                                                *)
(*                                                                         *)
(* Callbacks.  The Message Handler returns a response or raises.  The      *)
(* on_task_updated hook is awaited inside the engine's try block, so it    *)
(* returns or raises into the except clause.  on_task_created and          *)
(* on_task_canceled are awaited outside any try block and are taken to be  *)
(* notification hooks that return.  Which callbacks are registered is      *)
(* fixed when the engine is set up.                                        *)
(*                                                                         *)
(* Not modelled: TaskStatus.timestamp, Task.artifacts, Task.metadata, and  *)
(* the parts of a Message (a message is identified by role + message_id).  *)
(* A history of None and an empty history are both the empty sequence (the *)
(* code tests them with `not task.history` / `and task.history`).          *)
(***************************************************************************)
EXTENDS Integers, Sequences, FiniteSets, TLC

\* ------------------------------------------------------------------ bounds
\* number of concurrent callers (coroutines driving engine operations)
NumProcs == 2
\* number of tasks the engine creates (create_task calls)
MaxTasks == 1
\* number of inbound messages submitted through create/send calls
MaxMsgs == 2

Procs == 1 .. NumProcs
\* an id no task ever has (a caller may name any id)
UnknownId == 0
\* Optional[X]: None is the empty sequence, a value x is <<x>>
None == <<>>
Some(x) == <<x>>

\* --------------------------------------------------------------- TaskState
SUBMITTED == "submitted"
WORKING == "working"
INPUT_REQUIRED == "input-required"
COMPLETED == "completed"
CANCELED == "canceled"
FAILED == "failed"
UNKNOWN == "unknown"

TaskState == {SUBMITTED, WORKING, INPUT_REQUIRED, COMPLETED, CANCELED, FAILED, UNKNOWN}

\* mutants of NotCancelableStates: the membership test forgets CANCELED / FAILED
NotCancelableStates_without_canceled == {COMPLETED, FAILED}
NotCancelableStates_without_failed == {COMPLETED, CANCELED}
\* the states cancel_task refuses (the list in its membership test)
NotCancelableStates == {COMPLETED, FAILED, CANCELED}
\* mutant of FinalStates: the membership test forgets CANCELED
FinalStates_without_canceled == {COMPLETED, FAILED}
\* the states resubscribe_task reports with final=True (the list in its membership test)
FinalStates == {COMPLETED, FAILED, CANCELED}

\* ---------------------------------------------------------------- Message
USER == "user"
AGENT == "agent"

\* an inbound message of a caller; message_id is unique per submitted message
UserMessage(n) == [role |-> USER, message_id |-> n]
\* the Message Handler's response to message m
HandlerResponse(m) == [role |-> AGENT, message_id |-> m.message_id]
\* messages of a task that was put into the store before the engine started
OldMessage(n) == [role |-> USER, message_id |-> 0 - n]

\* ------------------------------------------------------------------- Task
Task(id, session_id, state, message, history) ==
    [id |-> id, session_id |-> session_id, state |-> state,
     message |-> message, history |-> history]

SessionIds == {None, Some("s1")}

\* ------------------------------------------------------------- exceptions
TaskNotFoundException == "TaskNotFoundException"
TaskNotCancelableException == "TaskNotCancelableException"
InternalErrorException == "InternalErrorException"
PushNotificationNotSupportedException == "PushNotificationNotSupportedException"
UnsupportedOperationException == "UnsupportedOperationException"
InvalidRequestException == "InvalidRequestException"
MethodNotFoundException == "MethodNotFoundException"
InvalidParamsException == "InvalidParamsException"
ValueError == "ValueError"
RETURN == "return"

\* the exception classes of exceptions.py that set a code
A2AExceptions ==
    {TaskNotFoundException, TaskNotCancelableException,
     PushNotificationNotSupportedException, UnsupportedOperationException,
     InvalidRequestException, MethodNotFoundException, InvalidParamsException,
     InternalErrorException}

\* mutant of ErrorCode: TaskNotCancelableException passes the code of
\* TaskNotFoundException
ErrorCode_shared(exc) ==
    CASE exc = TaskNotFoundException -> 0 - 32001
      [] exc = TaskNotCancelableException -> 0 - 32001
      [] exc = PushNotificationNotSupportedException -> 0 - 32003
      [] exc = UnsupportedOperationException -> 0 - 32004
      [] exc = InvalidRequestException -> 0 - 32600
      [] exc = MethodNotFoundException -> 0 - 32601
      [] exc = InvalidParamsException -> 0 - 32602
      [] exc = InternalErrorException -> 0 - 32603
\* the code attribute each exception class passes to A2AException.__init__
ErrorCode(exc) ==
    CASE exc = TaskNotFoundException -> 0 - 32001
      [] exc = TaskNotCancelableException -> 0 - 32002
      [] exc = PushNotificationNotSupportedException -> 0 - 32003
      [] exc = UnsupportedOperationException -> 0 - 32004
      [] exc = InvalidRequestException -> 0 - 32600
      [] exc = MethodNotFoundException -> 0 - 32601
      [] exc = InvalidParamsException -> 0 - 32602
      [] exc = InternalErrorException -> 0 - 32603

VARIABLES
    heap,       \* sequence of the Task objects constructed so far; a reference is an index
    tasks,      \* InMemoryTaskStore._tasks: task id -> reference
    handlers,   \* which TaskManager callbacks are registered (not None)
    frame,      \* per caller: the engine coroutine it is running / has last run
    nextMsg,    \* number of inbound messages submitted so far
    heap0       \* ghost: the heap as it was when the engine was constructed

vars == <<heap, tasks, handlers, frame, nextMsg, heap0>>

\* ------------------------------------------------------- InMemoryTaskStore
\* mutant of Store_create_task: the task is not put into the dict
Store_create_task_forgets(ts, h, ref) == ts
\* create_task: the dict after self._tasks[task.id] = task; a caller tests
\* Store_task_exists first and takes the ValueError path with it
Store_create_task(ts, h, ref) == (h[ref].id :> ref) @@ ts
\* task_exists / the membership test of get_task and update_task
Store_task_exists(ts, id) == id \in DOMAIN ts
\* get_task: the stored reference itself (no copy)
Store_get_task(ts, id) == ts[id]
\* mutant of Store_update_task: the dict is rebuilt with this entry alone
Store_update_task_drops_others(ts, h, ref) == (h[ref].id :> ref)
\* update_task: the dict after self._tasks[task.id] = task; a caller tests
\* Store_task_exists first and takes the TaskNotFoundException path without it
Store_update_task(ts, h, ref) == (h[ref].id :> ref) @@ ts

\* mutant of Store_delete_task: the key stays in the dict
Store_delete_task_keeps(ts, id) == ts
\* delete_task: the dict after del self._tasks[task_id]
Store_delete_task(ts, id) == [k \in DOMAIN ts \ {id} |-> ts[k]]
\* clear: the dict after self._tasks.clear()
Store_clear == <<>>

\* ------------------------------------------------- assignments to a Task
\* mutant of SetStatus: one TaskStatus object is shared by all tasks
SetStatus_shared(h, ref, s, m) ==
    [i \in DOMAIN h |-> [h[i] EXCEPT !.state = s, !.message = m]]
\* task.status = TaskStatus(state=s, message=m, timestamp=...)
SetStatus(h, ref, s, m) == [h EXCEPT ![ref].state = s, ![ref].message = m]
\* mutant of AppendHistory: the history is replaced instead of extended
AppendHistory_replaces(h, ref, m) == [h EXCEPT ![ref].history = <<m>>]
\* task.history.append(m)
AppendHistory(h, ref, m) == [h EXCEPT ![ref].history = Append(@, m)]
\* Python's seq[-n:]
LastN(seq, n) ==
    IF n = 0 THEN seq
    ELSE IF n > 0
         THEN IF n >= Len(seq) THEN seq ELSE SubSeq(seq, Len(seq) - n + 1, Len(seq))
         ELSE SubSeq(seq, (0 - n) + 1, Len(seq))
\* if history_length is not None and task.history: task.history = task.history[-history_length:]
ApplyHistoryLength(h, ref, n) ==
    IF n # None /\ h[ref].history # <<>>
    THEN [h EXCEPT ![ref].history = LastN(@, n[1])]
    ELSE h

\* ------------------------------------------------------------------ frames
IdleFrame ==
    [op |-> "idle", pc |-> "idle", task_id |-> UnknownId, task |-> 0,
     message |-> None, response |-> None, history_length |-> None,
     route |-> FALSE, result |-> "pending", returned |-> None,
     events |-> <<>>, transitions |-> <<>>, session_id |-> None, calls |-> 0,
     value |-> None, agent_url |-> None, status_code |-> None]

\* a caller can start an operation when it runs none
CanCall(p) == frame[p].pc \in {"idle", "done"}

\* the frame of a fresh invocation of operation op
Call(op, id) == [IdleFrame EXCEPT !.op = op, !.task_id = id]

\* the coroutine ends by returning / by raising exc
Raise(f, exc) == [f EXCEPT !.pc = "done", !.result = exc]
\* return task: the caller gets the heap object; returned is its value at that moment
ReturnTask(h, f) == [f EXCEPT !.pc = "done", !.result = RETURN, !.returned = Some(h[f.task])]
\* return v, for a value that is not a Task (a Message, a bool, a list)
ReturnValue(f, v) == [f EXCEPT !.pc = "done", !.result = RETURN, !.value = Some(v)]
\* a method without a return value ends
ReturnNone(f) == [f EXCEPT !.pc = "done", !.result = RETURN]
\* an async generator runs off its end (StopAsyncIteration at the consumer)
StopIteration(f) == [f EXCEPT !.pc = "done", !.result = RETURN]

\* TaskStatusUpdateEvent(id, status, final).model_dump(): a snapshot of the status
Event(h, ref, final) == [id |-> h[ref].id, state |-> h[ref].state,
                         message |-> h[ref].message, final |-> final]
Yield(f, ev, pc) == [f EXCEPT !.pc = pc, !.events = Append(@, ev)]

\* ghost: the terminal states this invocation has assigned, in order
Record(f, s) == [f EXCEPT !.transitions = Append(@, s)]

\* await self.on_message_received(message): the coroutine is suspended in the
\* Handler (calls is a ghost: how often this invocation has called it)
InvokeHandler(f) == [f EXCEPT !.pc = "on_message_received", !.calls = @ + 1]

\* the callbacks an agent has registered on the TaskManager (lines 26-30); the
\* Agent-Card Provider is registered only where get_agent_card is called
Configs == [on_message_received : BOOLEAN, on_task_created : BOOLEAN,
            on_task_updated : BOOLEAN, on_task_canceled : BOOLEAN,
            on_agent_card_query : {FALSE}]
\* the same, with or without an Agent-Card Provider
CardConfigs == [on_message_received : BOOLEAN, on_task_created : BOOLEAN,
                on_task_updated : BOOLEAN, on_task_canceled : BOOLEAN,
                on_agent_card_query : BOOLEAN]

\* TaskManager(): a fresh InMemoryTaskStore, callbacks as the agent set them
Init ==
    /\ heap = <<>>
    /\ tasks = <<>>
    /\ handlers \in Configs
    /\ frame = [p \in Procs |-> IdleFrame]
    /\ nextMsg = 0
    /\ heap0 = heap


\* =============================================================== create_task
\* mutant of uuid4: the id of the first Task object is handed out again
uuid4_repeats(h) == 1
\* str(uuid.uuid4()): an id that no Task object constructed so far has
uuid4(h) == Len(h) + 1

\* mutant of create_task_except: the except clause raises without assigning FAILED
create_task_except_keeps_status(p, h, ts, f) ==
    /\ heap' = h
    /\ tasks' = ts
    /\ frame' = [frame EXCEPT ![p] = Raise(f, InternalErrorException)]
\* lines 102-109: the except clause; when its own update_task raises
\* TaskNotFoundException (the task is no longer stored) that exception leaves
\* the except clause in place of the InternalErrorException of line 109
create_task_except(p, h, ts, f) ==
    LET h1 == SetStatus(h, f.task, FAILED, None)
        ts1 == Store_update_task(ts, h1, f.task)
    IN  /\ heap' = h1
        /\ IF Store_task_exists(ts, h1[f.task].id)
           THEN /\ tasks' = ts1
                /\ frame' = [frame EXCEPT ![p] =
                                Raise(Record(f, FAILED), InternalErrorException)]
           ELSE /\ tasks' = ts
                /\ frame' = [frame EXCEPT ![p] =
                                Raise(Record(f, FAILED), TaskNotFoundException)]

\* mutant of create_task_process: the Handler is awaited without WORKING
\* having been assigned
create_task_process_skips_working(p, h, ts, f) ==
    /\ heap' = h
    /\ tasks' = ts
    /\ frame' = [frame EXCEPT ![p] =
                    IF handlers.on_message_received
                    THEN InvokeHandler(f)
                    ELSE ReturnTask(h, f)]
\* lines 75-86: WORKING is assigned and stored, then the Handler is awaited;
\* with no Handler the try block is left and the task is returned; an
\* update_task that raises TaskNotFoundException is caught by the except clause
create_task_process(p, h, ts, f) ==
    LET h1 == SetStatus(h, f.task, WORKING, None)
        ts1 == Store_update_task(ts, h1, f.task)
    IN  IF Store_task_exists(ts, h1[f.task].id)
        THEN /\ heap' = h1
             /\ tasks' = ts1
             /\ frame' = [frame EXCEPT ![p] =
                             IF handlers.on_message_received
                             THEN InvokeHandler(f)
                             ELSE ReturnTask(h1, f)]
        ELSE create_task_except(p, h1, ts, f)

\* lines 52-73 (and on to 86 when no on_task_created hook is registered);
\* task_store.create_task raises ValueError for an id that is already a key
create_task(p, session_id) ==
    /\ CanCall(p)
    /\ Len(heap) - Len(heap0) < MaxTasks
    /\ nextMsg < MaxMsgs
    /\ LET m == UserMessage(nextMsg + 1)
           task_id == uuid4(heap)
           ref == Len(heap) + 1
           h1 == Append(heap, Task(task_id, session_id, SUBMITTED, None, <<m>>))
           ts1 == Store_create_task(tasks, h1, ref)
           f1 == [Call("create_task", task_id) EXCEPT
                      !.task = ref, !.message = Some(m), !.session_id = session_id]
       IN  IF Store_task_exists(tasks, task_id)
           THEN /\ heap' = h1
                /\ tasks' = tasks
                /\ frame' = [frame EXCEPT ![p] = Raise(f1, ValueError)]
           ELSE IF handlers.on_task_created
           THEN /\ heap' = h1
                /\ tasks' = ts1
                /\ frame' = [frame EXCEPT ![p] = [f1 EXCEPT !.pc = "on_task_created"]]
           ELSE create_task_process(p, h1, ts1, f1)
    /\ nextMsg' = nextMsg + 1
    /\ UNCHANGED <<handlers, heap0>>

\* the on_task_created hook returns: lines 75-86
create_task_on_task_created_returns(p) ==
    /\ frame[p].op = "create_task"
    /\ frame[p].pc = "on_task_created"
    /\ create_task_process(p, heap, tasks, frame[p])
    /\ UNCHANGED <<handlers, nextMsg, heap0>>

\* the Handler returns a response: lines 86-100
create_task_handler_returns(p) ==
    /\ frame[p].op = "create_task"
    /\ frame[p].pc = "on_message_received"
    /\ LET f == frame[p]
           response == HandlerResponse(f.message[1])
           h1 == AppendHistory(heap, f.task, response)
           h2 == SetStatus(h1, f.task, COMPLETED, Some(response))
           ts1 == Store_update_task(tasks, h2, f.task)
           f1 == Record([f EXCEPT !.response = Some(response)], COMPLETED)
       IN  IF Store_task_exists(tasks, h2[f.task].id)
           THEN /\ heap' = h2
                /\ tasks' = ts1
                /\ frame' = [frame EXCEPT ![p] =
                                IF handlers.on_task_updated
                                THEN [f1 EXCEPT !.pc = "on_task_updated"]
                                ELSE ReturnTask(h2, f1)]
           ELSE create_task_except(p, h2, tasks, f1)
    /\ UNCHANGED <<handlers, nextMsg, heap0>>

\* the Handler raises: lines 102-109
create_task_handler_raises_stuck(p) ==
    /\ frame[p].op = "create_task"
    /\ frame[p].pc = "on_message_received"
    /\ frame' = [frame EXCEPT ![p] = Raise(frame[p], InternalErrorException)]
    /\ UNCHANGED <<heap, tasks, handlers, nextMsg, heap0>>

create_task_handler_raises(p) ==
    /\ frame[p].op = "create_task"
    /\ frame[p].pc = "on_message_received"
    /\ create_task_except(p, heap, tasks, frame[p])
    /\ UNCHANGED <<handlers, nextMsg, heap0>>

\* the on_task_updated hook returns: line 111
create_task_on_task_updated_returns(p) ==
    /\ frame[p].op = "create_task"
    /\ frame[p].pc = "on_task_updated"
    /\ frame' = [frame EXCEPT ![p] = ReturnTask(heap, frame[p])]
    /\ UNCHANGED <<heap, tasks, handlers, nextMsg, heap0>>

\* the on_task_updated hook raises inside the try block: lines 102-109
create_task_on_task_updated_raises(p) ==
    /\ frame[p].op = "create_task"
    /\ frame[p].pc = "on_task_updated"
    /\ create_task_except(p, heap, tasks, frame[p])
    /\ UNCHANGED <<handlers, nextMsg, heap0>>

\* ================================================================== get_task
HistoryLengths == {None, Some(1)}

get_task(p, task_id, history_length) ==
    /\ CanCall(p)
    /\ LET f == [Call("get_task", task_id) EXCEPT !.history_length = history_length]
       IN  IF ~ Store_task_exists(tasks, task_id)
           THEN /\ frame' = [frame EXCEPT ![p] = Raise(f, TaskNotFoundException)]
                /\ heap' = heap
           ELSE LET ref == Store_get_task(tasks, task_id)
                    h1 == ApplyHistoryLength(heap, ref, history_length)
                IN  /\ heap' = h1
                    /\ frame' = [frame EXCEPT ![p] = ReturnTask(h1, [f EXCEPT !.task = ref])]
    /\ UNCHANGED <<tasks, handlers, nextMsg, heap0>>

\* ========================================================= send_task_message
\* return task, through the FastAPI route when the call came over HTTP:
\* fastapi.py lines 130-136 cut task.history of the returned object
send_task_message_return(p, h, f) ==
    LET h1 == IF f.route THEN ApplyHistoryLength(h, f.task, f.history_length) ELSE h
    IN  /\ heap' = h1
        /\ frame' = [frame EXCEPT ![p] = ReturnTask(h1, f)]

\* mutant of send_task_message_except: a TaskNotFoundException raised by the
\* except clause's update_task is reported as InternalErrorException
send_task_message_except_wraps(p, h, ts, f) ==
    LET h1 == SetStatus(h, f.task, FAILED, None)
    IN  /\ heap' = h1
        /\ tasks' = IF Store_task_exists(ts, h1[f.task].id)
                    THEN Store_update_task(ts, h1, f.task) ELSE ts
        /\ frame' = [frame EXCEPT ![p] = Raise(Record(f, FAILED), InternalErrorException)]
\* mutant of send_task_message_except: the except clause assigns the UNKNOWN
\* sentinel instead of FAILED
send_task_message_except_unknown(p, h, ts, f) ==
    LET h1 == SetStatus(h, f.task, UNKNOWN, None)
        ts1 == Store_update_task(ts, h1, f.task)
    IN  /\ heap' = h1
        /\ IF Store_task_exists(ts, h1[f.task].id)
           THEN /\ tasks' = ts1
                /\ frame' = [frame EXCEPT ![p] =
                                Raise(Record(f, FAILED), InternalErrorException)]
           ELSE /\ tasks' = ts
                /\ frame' = [frame EXCEPT ![p] =
                                Raise(Record(f, FAILED), TaskNotFoundException)]
\* lines 158-165: the except clause; when its own update_task raises
\* TaskNotFoundException that exception leaves the except clause in place of
\* the InternalErrorException of line 165
send_task_message_except(p, h, ts, f) ==
    LET h1 == SetStatus(h, f.task, FAILED, None)
        ts1 == Store_update_task(ts, h1, f.task)
    IN  /\ heap' = h1
        /\ IF Store_task_exists(ts, h1[f.task].id)
           THEN /\ tasks' = ts1
                /\ frame' = [frame EXCEPT ![p] =
                                Raise(Record(f, FAILED), InternalErrorException)]
           ELSE /\ tasks' = ts
                /\ frame' = [frame EXCEPT ![p] =
                                Raise(Record(f, FAILED), TaskNotFoundException)]

\* line 125 on an id that is not stored
send_task_message_not_found(p, task_id, route, history_length) ==
    /\ CanCall(p)
    /\ route \/ history_length = None
    /\ ~ Store_task_exists(tasks, task_id)
    /\ frame' = [frame EXCEPT ![p] =
                    Raise([Call("send_task_message", task_id) EXCEPT
                               !.route = route, !.history_length = history_length],
                          TaskNotFoundException)]
    /\ UNCHANGED <<heap, tasks, handlers, nextMsg, heap0>>

\* lines 123-142
send_task_message(p, task_id, route, history_length) ==
    /\ CanCall(p)
    /\ route \/ history_length = None
    /\ nextMsg < MaxMsgs
    /\ Store_task_exists(tasks, task_id)
    /\ LET m == UserMessage(nextMsg + 1)
           ref == Store_get_task(tasks, task_id)
           h1 == AppendHistory(heap, ref, m)
           h2 == SetStatus(h1, ref, WORKING, None)
           ts1 == Store_update_task(tasks, h2, ref)
           f == [Call("send_task_message", task_id) EXCEPT
                     !.task = ref, !.message = Some(m),
                     !.route = route, !.history_length = history_length]
       IN  /\ tasks' = ts1
           /\ IF handlers.on_message_received
              THEN /\ heap' = h2
                   /\ frame' = [frame EXCEPT ![p] = InvokeHandler(f)]
              ELSE send_task_message_return(p, h2, f)
    /\ nextMsg' = nextMsg + 1
    /\ UNCHANGED <<handlers, heap0>>

\* mutant of send_task_message_handler_returns: the response is not appended
\* to the history
send_task_message_handler_returns_skips_history(p) ==
    /\ frame[p].op = "send_task_message"
    /\ frame[p].pc = "on_message_received"
    /\ LET f == frame[p]
           response == HandlerResponse(f.message[1])
           h2 == SetStatus(heap, f.task, COMPLETED, Some(response))
           ts1 == Store_update_task(tasks, h2, f.task)
           f1 == Record([f EXCEPT !.response = Some(response)], COMPLETED)
       IN  IF Store_task_exists(tasks, h2[f.task].id)
           THEN /\ tasks' = ts1
                /\ IF handlers.on_task_updated
                   THEN /\ heap' = h2
                        /\ frame' = [frame EXCEPT ![p] = [f1 EXCEPT !.pc = "on_task_updated"]]
                   ELSE send_task_message_return(p, h2, f1)
           ELSE send_task_message_except(p, h2, tasks, f1)
    /\ UNCHANGED <<handlers, nextMsg, heap0>>
\* the Handler returns a response: lines 142-156
send_task_message_handler_returns(p) ==
    /\ frame[p].op = "send_task_message"
    /\ frame[p].pc = "on_message_received"
    /\ LET f == frame[p]
           response == HandlerResponse(f.message[1])
           h1 == AppendHistory(heap, f.task, response)
           h2 == SetStatus(h1, f.task, COMPLETED, Some(response))
           ts1 == Store_update_task(tasks, h2, f.task)
           f1 == Record([f EXCEPT !.response = Some(response)], COMPLETED)
       IN  IF Store_task_exists(tasks, h2[f.task].id)
           THEN /\ tasks' = ts1
                /\ IF handlers.on_task_updated
                   THEN /\ heap' = h2
                        /\ frame' = [frame EXCEPT ![p] = [f1 EXCEPT !.pc = "on_task_updated"]]
                   ELSE send_task_message_return(p, h2, f1)
           ELSE send_task_message_except(p, h2, tasks, f1)
    /\ UNCHANGED <<handlers, nextMsg, heap0>>

\* mutant of send_task_message_handler_raises: the Handler is called again
send_task_message_handler_raises_retries(p) ==
    /\ frame[p].op = "send_task_message"
    /\ frame[p].pc = "on_message_received"
    /\ frame' = [frame EXCEPT ![p] = InvokeHandler(frame[p])]
    /\ UNCHANGED <<heap, tasks, handlers, nextMsg, heap0>>
\* the Handler raises: lines 158-165
send_task_message_handler_raises(p) ==
    /\ frame[p].op = "send_task_message"
    /\ frame[p].pc = "on_message_received"
    /\ send_task_message_except(p, heap, tasks, frame[p])
    /\ UNCHANGED <<handlers, nextMsg, heap0>>

\* the on_task_updated hook returns: line 167
send_task_message_on_task_updated_returns(p) ==
    /\ frame[p].op = "send_task_message"
    /\ frame[p].pc = "on_task_updated"
    /\ send_task_message_return(p, heap, frame[p])
    /\ UNCHANGED <<tasks, handlers, nextMsg, heap0>>

\* the on_task_updated hook raises inside the try block: lines 158-165
send_task_message_on_task_updated_raises(p) ==
    /\ frame[p].op = "send_task_message"
    /\ frame[p].pc = "on_task_updated"
    /\ send_task_message_except(p, heap, tasks, frame[p])
    /\ UNCHANGED <<handlers, nextMsg, heap0>>

\* ================================================= send_task_message_stream
\* mutant of send_task_message_stream_except: the FAILED event is yielded
\* without FAILED having been assigned to the task
send_task_message_stream_except_keeps_status(p, h, ts, f) ==
    /\ heap' = h
    /\ tasks' = ts
    /\ frame' = [frame EXCEPT ![p] =
                    Yield(Record(f, FAILED),
                          [Event(h, f.task, TRUE) EXCEPT !.state = FAILED], "yield_failed")]
\* lines 227-243: the except clause up to the yield of the FAILED event; when
\* its own update_task raises TaskNotFoundException the generator ends with
\* that exception and yields no event
send_task_message_stream_except(p, h, ts, f) ==
    LET h1 == SetStatus(h, f.task, FAILED, None)
        ts1 == Store_update_task(ts, h1, f.task)
    IN  /\ heap' = h1
        /\ IF Store_task_exists(ts, h1[f.task].id)
           THEN /\ tasks' = ts1
                /\ frame' = [frame EXCEPT ![p] =
                                Yield(Record(f, FAILED), Event(h1, f.task, TRUE),
                                      "yield_failed")]
           ELSE /\ tasks' = ts
                /\ frame' = [frame EXCEPT ![p] =
                                Raise(Record(f, FAILED), TaskNotFoundException)]

\* line 175 on an id that is not stored: the first __anext__ raises
send_task_message_stream_not_found(p, task_id) ==
    /\ CanCall(p)
    /\ ~ Store_task_exists(tasks, task_id)
    /\ frame' = [frame EXCEPT ![p] =
                    Raise(Call("send_task_message_stream", task_id), TaskNotFoundException)]
    /\ UNCHANGED <<heap, tasks, handlers, nextMsg, heap0>>

\* lines 169-196: up to the yield of the WORKING event
send_task_message_stream(p, task_id) ==
    /\ CanCall(p)
    /\ nextMsg < MaxMsgs
    /\ Store_task_exists(tasks, task_id)
    /\ LET m == UserMessage(nextMsg + 1)
           ref == Store_get_task(tasks, task_id)
           h1 == AppendHistory(heap, ref, m)
           h2 == SetStatus(h1, ref, WORKING, None)
           ts1 == Store_update_task(tasks, h2, ref)
           f == [Call("send_task_message_stream", task_id) EXCEPT
                     !.task = ref, !.message = Some(m)]
       IN  /\ heap' = h2
           /\ tasks' = ts1
           /\ frame' = [frame EXCEPT ![p] = Yield(f, Event(h2, ref, FALSE), "yield_working")]
    /\ nextMsg' = nextMsg + 1
    /\ UNCHANGED <<handlers, heap0>>

\* the consumer asks for the next event after the WORKING event: lines 198-201;
\* with no Handler the generator runs off its end
send_task_message_stream_resume_working(p) ==
    /\ frame[p].op = "send_task_message_stream"
    /\ frame[p].pc = "yield_working"
    /\ frame' = [frame EXCEPT ![p] =
                    IF handlers.on_message_received
                    THEN InvokeHandler(frame[p])
                    ELSE StopIteration(frame[p])]
    /\ UNCHANGED <<heap, tasks, handlers, nextMsg, heap0>>

\* the Handler returns a response: lines 201-222, up to the yield of the final event
send_task_message_stream_handler_returns(p) ==
    /\ frame[p].op = "send_task_message_stream"
    /\ frame[p].pc = "on_message_received"
    /\ LET f == frame[p]
           response == HandlerResponse(f.message[1])
           h1 == AppendHistory(heap, f.task, response)
           h2 == SetStatus(h1, f.task, COMPLETED, Some(response))
           ts1 == Store_update_task(tasks, h2, f.task)
           f1 == Record([f EXCEPT !.response = Some(response)], COMPLETED)
       IN  IF Store_task_exists(tasks, h2[f.task].id)
           THEN /\ heap' = h2
                /\ tasks' = ts1
                /\ frame' = [frame EXCEPT ![p] =
                                Yield(f1, Event(h2, f.task, TRUE), "yield_final")]
           ELSE send_task_message_stream_except(p, h2, tasks, f1)
    /\ UNCHANGED <<handlers, nextMsg, heap0>>

\* the Handler raises: lines 227-243
send_task_message_stream_handler_raises(p) ==
    /\ frame[p].op = "send_task_message_stream"
    /\ frame[p].pc = "on_message_received"
    /\ send_task_message_stream_except(p, heap, tasks, frame[p])
    /\ UNCHANGED <<handlers, nextMsg, heap0>>

\* the consumer asks for the next event after the COMPLETED event: lines 224-225;
\* with no on_task_updated hook the generator runs off its end
send_task_message_stream_resume_final(p) ==
    /\ frame[p].op = "send_task_message_stream"
    /\ frame[p].pc = "yield_final"
    /\ frame' = [frame EXCEPT ![p] =
                    IF handlers.on_task_updated
                    THEN [frame[p] EXCEPT !.pc = "on_task_updated"]
                    ELSE StopIteration(frame[p])]
    /\ UNCHANGED <<heap, tasks, handlers, nextMsg, heap0>>

\* the on_task_updated hook returns: the generator runs off its end
send_task_message_stream_on_task_updated_returns(p) ==
    /\ frame[p].op = "send_task_message_stream"
    /\ frame[p].pc = "on_task_updated"
    /\ frame' = [frame EXCEPT ![p] = StopIteration(frame[p])]
    /\ UNCHANGED <<heap, tasks, handlers, nextMsg, heap0>>

\* the on_task_updated hook raises inside the try block: lines 227-243
send_task_message_stream_on_task_updated_raises(p) ==
    /\ frame[p].op = "send_task_message_stream"
    /\ frame[p].pc = "on_task_updated"
    /\ send_task_message_stream_except(p, heap, tasks, frame[p])
    /\ UNCHANGED <<handlers, nextMsg, heap0>>

\* the consumer asks for the next event after the FAILED event: line 245
send_task_message_stream_resume_failed(p) ==
    /\ frame[p].op = "send_task_message_stream"
    /\ frame[p].pc = "yield_failed"
    /\ frame' = [frame EXCEPT ![p] = Raise(frame[p], InternalErrorException)]
    /\ UNCHANGED <<heap, tasks, handlers, nextMsg, heap0>>

\* =============================================================== cancel_task
\* lines 247-265 (to line 263 when an on_task_canceled hook is registered)
cancel_task(p, task_id) ==
    /\ CanCall(p)
    /\ LET f == Call("cancel_task", task_id)
       IN  IF ~ Store_task_exists(tasks, task_id)
           THEN /\ frame' = [frame EXCEPT ![p] = Raise(f, TaskNotFoundException)]
                /\ UNCHANGED <<heap, tasks>>
           ELSE LET ref == Store_get_task(tasks, task_id)
                    f1 == [f EXCEPT !.task = ref]
                IN  IF heap[ref].state \in NotCancelableStates
                    THEN /\ frame' = [frame EXCEPT ![p] = Raise(f1, TaskNotCancelableException)]
                         /\ UNCHANGED <<heap, tasks>>
                    ELSE LET h1 == SetStatus(heap, ref, CANCELED, None)
                             ts1 == Store_update_task(tasks, h1, ref)
                         IN  /\ heap' = h1
                             /\ tasks' = ts1
                             /\ frame' = [frame EXCEPT ![p] =
                                             IF handlers.on_task_canceled
                                             THEN [f1 EXCEPT !.pc = "on_task_canceled"]
                                             ELSE ReturnTask(h1, f1)]
    /\ UNCHANGED <<handlers, nextMsg, heap0>>

\* the on_task_canceled hook returns: line 265
cancel_task_on_task_canceled_returns(p) ==
    /\ frame[p].op = "cancel_task"
    /\ frame[p].pc = "on_task_canceled"
    /\ frame' = [frame EXCEPT ![p] = ReturnTask(heap, frame[p])]
    /\ UNCHANGED <<heap, tasks, handlers, nextMsg, heap0>>

\* ========================================================== resubscribe_task
\* lines 267-279: up to the yield of the one event
resubscribe_task(p, task_id) ==
    /\ CanCall(p)
    /\ LET f == Call("resubscribe_task", task_id)
       IN  IF ~ Store_task_exists(tasks, task_id)
           THEN frame' = [frame EXCEPT ![p] = Raise(f, TaskNotFoundException)]
           ELSE LET ref == Store_get_task(tasks, task_id)
                IN  frame' = [frame EXCEPT ![p] =
                                 Yield([f EXCEPT !.task = ref],
                                       Event(heap, ref, heap[ref].state \in FinalStates),
                                       "yield_status")]
    /\ UNCHANGED <<heap, tasks, handlers, nextMsg, heap0>>

\* the consumer asks for the next event: the generator runs off its end
resubscribe_task_resume(p) ==
    /\ frame[p].op = "resubscribe_task"
    /\ frame[p].pc = "yield_status"
    /\ frame' = [frame EXCEPT ![p] = StopIteration(frame[p])]
    /\ UNCHANGED <<heap, tasks, handlers, nextMsg, heap0>>

\* =========================================================== process_message
\* lines 32-38: InternalErrorException without a Handler, else the Handler is awaited
process_message(p) ==
    /\ CanCall(p)
    /\ nextMsg < MaxMsgs
    /\ LET f == [Call("process_message", UnknownId) EXCEPT
                     !.message = Some(UserMessage(nextMsg + 1))]
       IN  frame' = [frame EXCEPT ![p] =
                        IF ~ handlers.on_message_received
                        THEN Raise(f, InternalErrorException)
                        ELSE InvokeHandler(f)]
    /\ nextMsg' = nextMsg + 1
    /\ UNCHANGED <<heap, tasks, handlers, heap0>>

\* the Handler returns a response: line 38 returns it
process_message_handler_returns(p) ==
    /\ frame[p].op = "process_message"
    /\ frame[p].pc = "on_message_received"
    /\ LET response == HandlerResponse(frame[p].message[1])
       IN  frame' = [frame EXCEPT ![p] =
                        ReturnValue([frame[p] EXCEPT !.response = Some(response)], response)]
    /\ UNCHANGED <<heap, tasks, handlers, nextMsg, heap0>>

\* mutant of process_message_handler_raises: the Handler is called again
process_message_handler_raises_retries(p) ==
    /\ frame[p].op = "process_message"
    /\ frame[p].pc = "on_message_received"
    /\ frame' = [frame EXCEPT ![p] = InvokeHandler(frame[p])]
    /\ UNCHANGED <<heap, tasks, handlers, nextMsg, heap0>>
\* the Handler raises: lines 39-40
process_message_handler_raises(p) ==
    /\ frame[p].op = "process_message"
    /\ frame[p].pc = "on_message_received"
    /\ frame' = [frame EXCEPT ![p] = Raise(frame[p], InternalErrorException)]
    /\ UNCHANGED <<heap, tasks, handlers, nextMsg, heap0>>

\* ============================================================= get_agent_card
\* the agent_url arguments a caller passes
AgentUrls == {"http://a/echo", "http://b/echo"}
\* the AgentCard values a provider can build (models/agent_card.py: name, url, ...)
AgentCards == [name : {"Agent A", "Agent B"}, url : AgentUrls]

\* mutant of get_agent_card: without a provider the call returns nothing
\* instead of raising
get_agent_card_returns_none(p, agent_url) ==
    /\ CanCall(p)
    /\ LET f == [Call("get_agent_card", UnknownId) EXCEPT !.agent_url = Some(agent_url)]
       IN  frame' = [frame EXCEPT ![p] =
                        IF ~ handlers.on_agent_card_query
                        THEN StopIteration(f)
                        ELSE [f EXCEPT !.pc = "on_agent_card_query"]]
    /\ UNCHANGED <<heap, tasks, handlers, nextMsg, heap0>>
\* lines 42-48: InternalErrorException without a provider, else the provider
\* is awaited with agent_url
get_agent_card(p, agent_url) ==
    /\ CanCall(p)
    /\ LET f == [Call("get_agent_card", UnknownId) EXCEPT !.agent_url = Some(agent_url)]
       IN  frame' = [frame EXCEPT ![p] =
                        IF ~ handlers.on_agent_card_query
                        THEN Raise(f, InternalErrorException)
                        ELSE [f EXCEPT !.pc = "on_agent_card_query"]]
    /\ UNCHANGED <<heap, tasks, handlers, nextMsg, heap0>>

\* the provider returns a card: line 48 returns it
get_agent_card_provider_returns(p, card) ==
    /\ frame[p].op = "get_agent_card"
    /\ frame[p].pc = "on_agent_card_query"
    /\ frame' = [frame EXCEPT ![p] =
                    ReturnValue([frame[p] EXCEPT !.response = Some(card)], card)]
    /\ UNCHANGED <<heap, tasks, handlers, nextMsg, heap0>>

\* the provider raises: lines 49-50
get_agent_card_provider_raises(p) ==
    /\ frame[p].op = "get_agent_card"
    /\ frame[p].pc = "on_agent_card_query"
    /\ frame' = [frame EXCEPT ![p] = Raise(frame[p], InternalErrorException)]
    /\ UNCHANGED <<heap, tasks, handlers, nextMsg, heap0>>

\* ======================================= the routes of integrations/fastapi.py
\* an exception that is no A2AException (raised by a callback the engine
\* awaits outside its try, or by model_dump() of what a callback returned)
OtherException == "Exception"

\* mutant of handle_a2a_exception: the TaskNotFoundException branch is missing
handle_a2a_exception_without_404(e) ==
    IF e = TaskNotCancelableException THEN 400
    ELSE IF e = InvalidRequestException THEN 400
    ELSE IF e = InternalErrorException THEN 500
    ELSE IF e \in A2AExceptions THEN 500
    ELSE 500
\* lines 27-40: the status_code of the HTTPException built for exception e
handle_a2a_exception(e) ==
    IF e = TaskNotFoundException THEN 404
    ELSE IF e = TaskNotCancelableException THEN 400
    ELSE IF e = InvalidRequestException THEN 400
    ELSE IF e = InternalErrorException THEN 500
    ELSE IF e \in A2AExceptions THEN 500
    ELSE 500

\* the engine operation each non-streaming route awaits: GET /card,
\* POST /message/send, POST /tasks, GET /tasks/{id}, POST /tasks/{id}/send,
\* POST /tasks/{id}/cancel
RouteOps ==
    {"get_agent_card", "process_message", "create_task", "get_task",
     "send_task_message", "cancel_task"}

\* the engine operation of a route has ended: the route returns
\* model_dump() of its value (200), or its except clause raises
\* handle_a2a_exception(e)
fastapi_respond(p) ==
    /\ frame[p].op \in RouteOps
    /\ frame[p].pc = "done"
    /\ frame[p].status_code = None
    /\ frame' = [frame EXCEPT ![p].status_code =
                    IF frame[p].result = RETURN
                    THEN Some(200)
                    ELSE Some(handle_a2a_exception(frame[p].result))]
    /\ UNCHANGED <<heap, tasks, handlers, nextMsg, heap0>>

\* GET /tasks/{id} with a metadata parameter that is not JSON (lines 103-108):
\* InvalidRequestException is raised before the engine is called, and the
\* except clause of line 118 maps it
fastapi_get_task_invalid_metadata(p, task_id) ==
    /\ CanCall(p)
    /\ frame' = [frame EXCEPT ![p] =
                    [Raise(Call("get_task", task_id), InvalidRequestException)
                        EXCEPT !.status_code =
                                  Some(handle_a2a_exception(InvalidRequestException))]]
    /\ UNCHANGED <<heap, tasks, handlers, nextMsg, heap0>>

\* the try body of a route raises an exception the engine did not wrap, and
\* the except clause of the route maps it
fastapi_route_raises(p, op, e) ==
    /\ CanCall(p)
    /\ frame' = [frame EXCEPT ![p] =
                    [Raise(Call(op, UnknownId), e)
                        EXCEPT !.status_code = Some(handle_a2a_exception(e))]]
    /\ UNCHANGED <<heap, tasks, handlers, nextMsg, heap0>>

\* ============================= InMemoryTaskStore, called by a caller directly
\* the ids a caller gives to the Task objects it constructs: the id of the
\* task the store starts with, and one more
CallerIds == {1, 0 - 1}
\* the ids a caller may ask the store about
QueryIds == CallerIds \cup {UnknownId}
CallerSessions == SessionIds \cup {Some("s2")}

\* the Task arguments a caller can pass, as <<heap, reference>>: an object
\* that exists already, or one it constructs for the call
TaskArgs ==
    {<<heap, r>> : r \in 1 .. Len(heap)}
    \cup (IF Len(heap) - Len(heap0) < MaxTasks
          THEN {<<Append(heap, Task(id, s, SUBMITTED, None, <<>>)), Len(heap) + 1>> :
                   id \in CallerIds, s \in CallerSessions}
          ELSE {})

\* the keys of the dict in order (ids are numbers here; the dict's own order,
\* that of insertion, is not modelled)
RECURSIVE KeysInOrder(_)
KeysInOrder(ks) ==
    IF ks = {} THEN <<>>
    ELSE LET k == CHOOSE x \in ks : \A y \in ks : x <= y
         IN  <<k>> \o KeysInOrder(ks \ {k})

\* [task for task in tasks if task.session_id == session_id]
RECURSIVE FilterSession(_, _)
FilterSession(ts, session_id) ==
    IF ts = <<>> THEN <<>>
    ELSE (IF Head(ts).session_id = session_id THEN <<Head(ts)>> ELSE <<>>)
             \o FilterSession(Tail(ts), session_id)

\* mutant of Store_list_tasks: the session filter is not applied
Store_list_tasks_unfiltered(ts, h, session_id) ==
    LET keys == KeysInOrder(DOMAIN ts)
    IN  [i \in DOMAIN keys |-> h[ts[keys[i]]]]
\* list_tasks (lines 80-87): list(self._tasks.values()), filtered when
\* session_id is not None
Store_list_tasks(ts, h, session_id) ==
    LET keys == KeysInOrder(DOMAIN ts)
        all == [i \in DOMAIN keys |-> h[ts[keys[i]]]]
    IN  IF session_id # None THEN FilterSession(all, session_id) ELSE all

\* mutant of store_create_task: an id that is already a key is overwritten
store_create_task_overwrites(p, arg) ==
    /\ CanCall(p)
    /\ arg \in TaskArgs
    /\ LET h1 == arg[1]
           ref == arg[2]
           f == [Call("store_create_task", h1[ref].id) EXCEPT !.task = ref]
       IN  /\ heap' = h1
           /\ tasks' = Store_create_task(tasks, h1, ref)
           /\ frame' = [frame EXCEPT ![p] = ReturnTask(h1, f)]
    /\ UNCHANGED <<handlers, nextMsg, heap0>>
\* create_task (lines 49-55)
store_create_task(p, arg) ==
    /\ CanCall(p)
    /\ arg \in TaskArgs
    /\ LET h1 == arg[1]
           ref == arg[2]
           f == [Call("store_create_task", h1[ref].id) EXCEPT !.task = ref]
       IN  /\ heap' = h1
           /\ IF Store_task_exists(tasks, h1[ref].id)
              THEN /\ tasks' = tasks
                   /\ frame' = [frame EXCEPT ![p] = Raise(f, ValueError)]
              ELSE /\ tasks' = Store_create_task(tasks, h1, ref)
                   /\ frame' = [frame EXCEPT ![p] = ReturnTask(h1, f)]
    /\ UNCHANGED <<handlers, nextMsg, heap0>>

\* get_task (lines 57-62)
store_get_task(p, task_id) ==
    /\ CanCall(p)
    /\ LET f == Call("store_get_task", task_id)
       IN  frame' = [frame EXCEPT ![p] =
                        IF ~ Store_task_exists(tasks, task_id)
                        THEN Raise(f, TaskNotFoundException)
                        ELSE ReturnTask(heap, [f EXCEPT !.task = Store_get_task(tasks, task_id)])]
    /\ UNCHANGED <<heap, tasks, handlers, nextMsg, heap0>>

\* mutant of store_update_task: an id that is not a key is inserted
store_update_task_inserts(p, arg) ==
    /\ CanCall(p)
    /\ arg \in TaskArgs
    /\ LET h1 == arg[1]
           ref == arg[2]
           f == [Call("store_update_task", h1[ref].id) EXCEPT !.task = ref]
       IN  /\ heap' = h1
           /\ tasks' = Store_update_task(tasks, h1, ref)
           /\ frame' = [frame EXCEPT ![p] = ReturnTask(h1, f)]
    /\ UNCHANGED <<handlers, nextMsg, heap0>>
\* update_task (lines 64-70)
store_update_task(p, arg) ==
    /\ CanCall(p)
    /\ arg \in TaskArgs
    /\ LET h1 == arg[1]
           ref == arg[2]
           f == [Call("store_update_task", h1[ref].id) EXCEPT !.task = ref]
       IN  /\ heap' = h1
           /\ IF ~ Store_task_exists(tasks, h1[ref].id)
              THEN /\ tasks' = tasks
                   /\ frame' = [frame EXCEPT ![p] = Raise(f, TaskNotFoundException)]
              ELSE /\ tasks' = Store_update_task(tasks, h1, ref)
                   /\ frame' = [frame EXCEPT ![p] = ReturnTask(h1, f)]
    /\ UNCHANGED <<handlers, nextMsg, heap0>>

\* mutant of store_delete_task: an id that is not a key raises
store_delete_task_raises(p, task_id) ==
    /\ CanCall(p)
    /\ LET f == Call("store_delete_task", task_id)
       IN  IF ~ Store_task_exists(tasks, task_id)
           THEN /\ tasks' = tasks
                /\ frame' = [frame EXCEPT ![p] = Raise(f, TaskNotFoundException)]
           ELSE /\ tasks' = Store_delete_task(tasks, task_id)
                /\ frame' = [frame EXCEPT ![p] = ReturnValue(f, TRUE)]
    /\ UNCHANGED <<heap, handlers, nextMsg, heap0>>
\* delete_task (lines 72-78)
store_delete_task(p, task_id) ==
    /\ CanCall(p)
    /\ LET f == Call("store_delete_task", task_id)
       IN  IF ~ Store_task_exists(tasks, task_id)
           THEN /\ tasks' = tasks
                /\ frame' = [frame EXCEPT ![p] = ReturnValue(f, FALSE)]
           ELSE /\ tasks' = Store_delete_task(tasks, task_id)
                /\ frame' = [frame EXCEPT ![p] = ReturnValue(f, TRUE)]
    /\ UNCHANGED <<heap, handlers, nextMsg, heap0>>

\* list_tasks (lines 80-87)
store_list_tasks(p, session_id) ==
    /\ CanCall(p)
    /\ frame' = [frame EXCEPT ![p] =
                    ReturnValue([Call("store_list_tasks", UnknownId) EXCEPT
                                     !.session_id = session_id],
                                Store_list_tasks(tasks, heap, session_id))]
    /\ UNCHANGED <<heap, tasks, handlers, nextMsg, heap0>>

\* task_exists (lines 89-91)
store_task_exists(p, task_id) ==
    /\ CanCall(p)
    /\ frame' = [frame EXCEPT ![p] =
                    ReturnValue(Call("store_task_exists", task_id),
                                Store_task_exists(tasks, task_id))]
    /\ UNCHANGED <<heap, tasks, handlers, nextMsg, heap0>>

\* clear (lines 93-95), a synchronous method of InMemoryTaskStore
store_clear(p) ==
    /\ CanCall(p)
    /\ tasks' = Store_clear
    /\ frame' = [frame EXCEPT ![p] = ReturnNone(Call("store_clear", UnknownId))]
    /\ UNCHANGED <<heap, handlers, nextMsg, heap0>>

\* ====================================================================== Next
\* ids a caller may name: the ids allocated so far, and one that never is
CallIds == (1 .. Len(heap)) \cup {UnknownId}

Next ==
    \E p \in Procs :
        \/ \E s \in SessionIds : create_task(p, s)
        \/ create_task_on_task_created_returns(p)
        \/ create_task_handler_returns(p)
        \/ create_task_handler_raises(p)
        \/ create_task_on_task_updated_returns(p)
        \/ create_task_on_task_updated_raises(p)
        \/ \E id \in CallIds, n \in HistoryLengths : get_task(p, id, n)
        \/ \E id \in CallIds, r \in BOOLEAN, n \in HistoryLengths :
               send_task_message_not_found(p, id, r, n)
        \/ \E id \in CallIds, r \in BOOLEAN, n \in HistoryLengths :
               send_task_message(p, id, r, n)
        \/ send_task_message_handler_returns(p)
        \/ send_task_message_handler_raises(p)
        \/ send_task_message_on_task_updated_returns(p)
        \/ send_task_message_on_task_updated_raises(p)
        \/ \E id \in CallIds : send_task_message_stream_not_found(p, id)
        \/ \E id \in CallIds : send_task_message_stream(p, id)
        \/ send_task_message_stream_resume_working(p)
        \/ send_task_message_stream_handler_returns(p)
        \/ send_task_message_stream_handler_raises(p)
        \/ send_task_message_stream_resume_final(p)
        \/ send_task_message_stream_on_task_updated_returns(p)
        \/ send_task_message_stream_on_task_updated_raises(p)
        \/ send_task_message_stream_resume_failed(p)
        \/ \E id \in CallIds : cancel_task(p, id)
        \/ cancel_task_on_task_canceled_returns(p)
        \/ \E id \in CallIds : resubscribe_task(p, id)
        \/ resubscribe_task_resume(p)

Spec == Init /\ [][Next]_vars

\* ============================================== a store that is handed over
\* TaskManager(task_store) over a store that already holds one task (as the
\* repository's tests build them: a Task object put in with store.create_task),
\* in any state and with a history of 0, 1 or 2 earlier messages
StoredHistories == {<<>>, <<OldMessage(1)>>, <<OldMessage(1), OldMessage(2)>>}

InitStored ==
    /\ \E s \in TaskState, hs \in StoredHistories :
            heap = <<Task(1, None, s, None, hs)>>
    /\ tasks = <<1>>
    /\ handlers \in Configs
    /\ frame = [p \in Procs |-> IdleFrame]
    /\ nextMsg = 0
    /\ heap0 = heap

\* a caller that has made no call yet
FirstCall(p) == frame[p].pc = "idle"

\* ---- callers that each make one cancel_task call; the callbacks cancel_task
\* never looks at are not registered
InitCancel ==
    /\ InitStored
    /\ ~ handlers.on_message_received
    /\ ~ handlers.on_task_created
    /\ ~ handlers.on_task_updated

NextCancel ==
    \E p \in Procs :
        \/ \E id \in CallIds : FirstCall(p) /\ cancel_task(p, id)
        \/ cancel_task_on_task_canceled_returns(p)

SpecCancel == InitCancel /\ [][NextCancel]_vars

\* ---- callers that each make one send_task_message call on the engine; the
\* callbacks send_task_message never looks at are not registered
InitSend ==
    /\ InitStored
    /\ ~ handlers.on_task_created
    /\ ~ handlers.on_task_canceled

NextSend ==
    \E p \in Procs :
        \/ \E id \in CallIds : FirstCall(p) /\ send_task_message_not_found(p, id, FALSE, None)
        \/ \E id \in CallIds : FirstCall(p) /\ send_task_message(p, id, FALSE, None)
        \/ send_task_message_handler_returns(p)
        \/ send_task_message_handler_raises(p)
        \/ send_task_message_on_task_updated_returns(p)
        \/ send_task_message_on_task_updated_raises(p)

SpecSend == InitSend /\ [][NextSend]_vars

\* ---- callers that each make one call, a cancel_task or a send_task_message
InitCancelSend ==
    /\ InitStored
    /\ ~ handlers.on_task_created

NextCancelSend == NextCancel \/ NextSend

SpecCancelSend == InitCancelSend /\ [][NextCancelSend]_vars

\* ---- callers that each make one call on a fresh engine: create_task, or a
\* get_task that observes; cancel_task's hook is not registered
InitCreate ==
    /\ Init
    /\ ~ handlers.on_task_canceled

NextCreate ==
    \E p \in Procs :
        \/ \E s \in SessionIds : FirstCall(p) /\ create_task(p, s)
        \/ create_task_on_task_created_returns(p)
        \/ create_task_handler_returns(p)
        \/ create_task_handler_raises(p)
        \/ create_task_on_task_updated_returns(p)
        \/ create_task_on_task_updated_raises(p)
        \/ \E id \in CallIds : FirstCall(p) /\ get_task(p, id, None)

SpecCreate == InitCreate /\ [][NextCreate]_vars

\* ---- callers that each consume one stream to its end: a
\* send_task_message_stream or a resubscribe_task
NextStream ==
    \E p \in Procs :
        \/ \E id \in CallIds : FirstCall(p) /\ send_task_message_stream_not_found(p, id)
        \/ \E id \in CallIds : FirstCall(p) /\ send_task_message_stream(p, id)
        \/ send_task_message_stream_resume_working(p)
        \/ send_task_message_stream_handler_returns(p)
        \/ send_task_message_stream_handler_raises(p)
        \/ send_task_message_stream_resume_final(p)
        \/ send_task_message_stream_on_task_updated_returns(p)
        \/ send_task_message_stream_on_task_updated_raises(p)
        \/ send_task_message_stream_resume_failed(p)
        \/ \E id \in CallIds : FirstCall(p) /\ resubscribe_task(p, id)
        \/ resubscribe_task_resume(p)

SpecStream == InitSend /\ [][NextStream]_vars

\* ---- callers that each make one call: an operation that invokes the Handler
\* (create_task, send_task_message, send_task_message_stream), started when no
\* other such operation is in progress, or a get_task that observes, started
\* at any time
InitObserve ==
    /\ InitStored
    /\ ~ handlers.on_task_canceled

ObserverOps == {"get_task"}

\* no caller other than p is inside an operation that assigns to a task
Quiet(p) == \A q \in Procs \ {p} : CanCall(q) \/ frame[q].op \in ObserverOps

NextObserve ==
    \E p \in Procs :
        \/ FirstCall(p) /\ Quiet(p) /\ create_task(p, None)
        \/ create_task_on_task_created_returns(p)
        \/ create_task_handler_returns(p)
        \/ create_task_handler_raises(p)
        \/ create_task_on_task_updated_returns(p)
        \/ create_task_on_task_updated_raises(p)
        \/ \E id \in CallIds : FirstCall(p) /\ Quiet(p) /\ send_task_message(p, id, FALSE, None)
        \/ send_task_message_handler_returns(p)
        \/ send_task_message_handler_raises(p)
        \/ send_task_message_on_task_updated_returns(p)
        \/ send_task_message_on_task_updated_raises(p)
        \/ \E id \in CallIds : FirstCall(p) /\ Quiet(p) /\ send_task_message_stream(p, id)
        \/ send_task_message_stream_resume_working(p)
        \/ send_task_message_stream_handler_returns(p)
        \/ send_task_message_stream_handler_raises(p)
        \/ send_task_message_stream_resume_final(p)
        \/ send_task_message_stream_on_task_updated_returns(p)
        \/ send_task_message_stream_on_task_updated_raises(p)
        \/ send_task_message_stream_resume_failed(p)
        \/ \E id \in CallIds : FirstCall(p) /\ get_task(p, id, None)

SpecObserve == InitObserve /\ [][NextObserve]_vars

\* ---- an engine without callbacks
NoCallbacks ==
    handlers = [on_message_received |-> FALSE, on_task_created |-> FALSE,
                on_task_updated |-> FALSE, on_task_canceled |-> FALSE,
                on_agent_card_query |-> FALSE]

\* ---- the methods of an InMemoryTaskStore that read or write its dict (the
\* six of the TaskStore interface and clear) called directly, any number of
\* times in any order; the store starts with one SUBMITTED task and no engine
\* runs.  No store method contains an await, so the calls of several callers
\* are one sequence of calls: one caller makes them.
InitStore ==
    /\ InitStored
    /\ NoCallbacks
    /\ heap[1].state = SUBMITTED
    /\ heap[1].history = <<>>

StoreCallers == {1}

NextStore ==
    \E p \in StoreCallers :
        \/ \E arg \in TaskArgs : store_create_task(p, arg)
        \/ \E id \in QueryIds : store_get_task(p, id)
        \/ \E arg \in TaskArgs : store_update_task(p, arg)
        \/ \E id \in QueryIds : store_delete_task(p, id)
        \/ \E s \in CallerSessions : store_list_tasks(p, s)
        \/ \E id \in QueryIds : store_task_exists(p, id)
        \/ store_clear(p)

SpecStore == InitStore /\ [][NextStore]_vars

\* ---- callers that each make one call: an engine operation, started when no
\* other engine operation is in progress, or a delete_task or clear on the
\* store the engine runs on, made at any time; the stored task has no earlier history
\* and is SUBMITTED or COMPLETED
InitEngine ==
    /\ InitStored
    /\ heap[1].history = <<>>
    /\ heap[1].state \in {SUBMITTED, COMPLETED}
    /\ ~ handlers.on_task_canceled

NextEngine ==
    \E p \in Procs :
        \/ FirstCall(p) /\ Quiet(p) /\ process_message(p)
        \/ process_message_handler_returns(p)
        \/ process_message_handler_raises(p)
        \/ FirstCall(p) /\ Quiet(p) /\ create_task(p, None)
        \/ create_task_on_task_created_returns(p)
        \/ create_task_handler_returns(p)
        \/ create_task_handler_raises(p)
        \/ create_task_on_task_updated_returns(p)
        \/ create_task_on_task_updated_raises(p)
        \/ \E id \in CallIds : FirstCall(p) /\ Quiet(p) /\ get_task(p, id, None)
        \/ \E id \in CallIds : FirstCall(p) /\ Quiet(p) /\ send_task_message_not_found(p, id, FALSE, None)
        \/ \E id \in CallIds : FirstCall(p) /\ Quiet(p) /\ send_task_message(p, id, FALSE, None)
        \/ send_task_message_handler_returns(p)
        \/ send_task_message_handler_raises(p)
        \/ send_task_message_on_task_updated_returns(p)
        \/ send_task_message_on_task_updated_raises(p)
        \/ \E id \in CallIds : FirstCall(p) /\ Quiet(p) /\ send_task_message_stream_not_found(p, id)
        \/ \E id \in CallIds : FirstCall(p) /\ Quiet(p) /\ send_task_message_stream(p, id)
        \/ send_task_message_stream_resume_working(p)
        \/ send_task_message_stream_handler_returns(p)
        \/ send_task_message_stream_handler_raises(p)
        \/ send_task_message_stream_resume_final(p)
        \/ send_task_message_stream_on_task_updated_returns(p)
        \/ send_task_message_stream_on_task_updated_raises(p)
        \/ send_task_message_stream_resume_failed(p)
        \/ \E id \in CallIds : FirstCall(p) /\ Quiet(p) /\ cancel_task(p, id)
        \/ \E id \in CallIds : FirstCall(p) /\ Quiet(p) /\ resubscribe_task(p, id)
        \/ resubscribe_task_resume(p)
        \/ \E id \in CallIds : FirstCall(p) /\ store_delete_task(p, id)
        \/ FirstCall(p) /\ store_clear(p)

SpecEngine == InitEngine /\ [][NextEngine]_vars

\* ---- callers that each make one call, overlapping freely: create_task,
\* send_task_message, send_task_message_stream or cancel_task; the store holds
\* one task as create_task stored it (SUBMITTED, its first message in the
\* history), so every state is one the engine operations alone lead to; the
\* Handler and the on_task_updated hook are registered or not, the hooks that
\* only observe (on_task_created, on_task_canceled) are not
InitLife ==
    /\ heap = <<Task(1, None, SUBMITTED, None, <<OldMessage(1)>>)>>
    /\ tasks = <<1>>
    /\ handlers \in {h \in Configs : ~ h.on_task_created /\ ~ h.on_task_canceled}
    /\ frame = [p \in Procs |-> IdleFrame]
    /\ nextMsg = 0
    /\ heap0 = heap

NextLife ==
    \E p \in Procs :
        \/ FirstCall(p) /\ create_task(p, None)
        \/ create_task_handler_returns(p)
        \/ create_task_handler_raises(p)
        \/ create_task_on_task_updated_returns(p)
        \/ create_task_on_task_updated_raises(p)
        \/ \E id \in CallIds : FirstCall(p) /\ send_task_message(p, id, FALSE, None)
        \/ send_task_message_handler_returns(p)
        \/ send_task_message_handler_raises(p)
        \/ send_task_message_on_task_updated_returns(p)
        \/ send_task_message_on_task_updated_raises(p)
        \/ \E id \in CallIds : FirstCall(p) /\ send_task_message_stream(p, id)
        \/ send_task_message_stream_resume_working(p)
        \/ send_task_message_stream_handler_returns(p)
        \/ send_task_message_stream_handler_raises(p)
        \/ send_task_message_stream_resume_final(p)
        \/ send_task_message_stream_on_task_updated_returns(p)
        \/ send_task_message_stream_on_task_updated_raises(p)
        \/ send_task_message_stream_resume_failed(p)
        \/ \E id \in CallIds : FirstCall(p) /\ cancel_task(p, id)

SpecLife == InitLife /\ [][NextLife]_vars

\* the next step of an operation that is suspended in the Handler or at a yield
Resume(p) ==
    \/ create_task_handler_returns(p)
    \/ create_task_handler_raises(p)
    \/ send_task_message_handler_returns(p)
    \/ send_task_message_handler_raises(p)
    \/ send_task_message_stream_resume_working(p)
    \/ send_task_message_stream_handler_returns(p)
    \/ send_task_message_stream_handler_raises(p)
    \/ send_task_message_stream_resume_final(p)
    \/ send_task_message_stream_resume_failed(p)

\* the next step of an operation that is suspended (in the Handler, in a hook
\* or at a yield)
Continue(p) ==
    \/ Resume(p)
    \/ create_task_on_task_updated_returns(p)
    \/ create_task_on_task_updated_raises(p)
    \/ send_task_message_on_task_updated_returns(p)
    \/ send_task_message_on_task_updated_raises(p)
    \/ send_task_message_stream_on_task_updated_returns(p)
    \/ send_task_message_stream_on_task_updated_raises(p)

\* ---- the same callers with a Handler registered and no hook, under fair
\* scheduling: an awaited Handler ends (it returns or raises) and a stream that
\* has yielded is resumed by its consumer, so the next step of a suspended
\* operation is eventually taken; the calls name stored tasks
InitProgress ==
    /\ InitLife
    /\ handlers.on_message_received
    /\ ~ handlers.on_task_updated

NextProgress ==
    \E p \in Procs :
        \/ FirstCall(p) /\ create_task(p, None)
        \/ \E id \in DOMAIN tasks :
                /\ FirstCall(p)
                /\ \/ send_task_message(p, id, FALSE, None)
                   \/ send_task_message_stream(p, id)
                   \/ cancel_task(p, id)
        \/ Resume(p)

SpecProgress ==
    /\ InitProgress
    /\ [][NextProgress]_vars
    /\ \A p \in Procs : WF_vars(Resume(p))

\* ---- callers that each make one call of an engine operation, started when
\* no other one is in progress: every operation and every way it fails; the
\* stored task is COMPLETED, so that a cancel_task of it fails
InitErrors ==
    /\ heap = <<Task(1, None, COMPLETED, None, <<>>)>>
    /\ tasks = <<1>>
    /\ handlers \in {h \in CardConfigs : ~ h.on_task_created /\ ~ h.on_task_canceled}
    /\ frame = [p \in Procs |-> IdleFrame]
    /\ nextMsg = 0
    /\ heap0 = heap

NextErrors ==
    \E p \in Procs :
        \/ FirstCall(p) /\ Quiet(p) /\ process_message(p)
        \/ process_message_handler_returns(p)
        \/ process_message_handler_raises(p)
        \/ \E agent_url \in AgentUrls : FirstCall(p) /\ Quiet(p) /\ get_agent_card(p, agent_url)
        \/ \E card \in AgentCards : get_agent_card_provider_returns(p, card)
        \/ get_agent_card_provider_raises(p)
        \/ FirstCall(p) /\ Quiet(p) /\ create_task(p, None)
        \/ create_task_handler_returns(p)
        \/ create_task_handler_raises(p)
        \/ create_task_on_task_updated_returns(p)
        \/ create_task_on_task_updated_raises(p)
        \/ \E id \in CallIds : FirstCall(p) /\ Quiet(p) /\ get_task(p, id, None)
        \/ \E id \in CallIds : FirstCall(p) /\ Quiet(p) /\ send_task_message_not_found(p, id, FALSE, None)
        \/ \E id \in CallIds : FirstCall(p) /\ Quiet(p) /\ send_task_message(p, id, FALSE, None)
        \/ send_task_message_handler_returns(p)
        \/ send_task_message_handler_raises(p)
        \/ send_task_message_on_task_updated_returns(p)
        \/ send_task_message_on_task_updated_raises(p)
        \/ \E id \in CallIds : FirstCall(p) /\ Quiet(p) /\ send_task_message_stream_not_found(p, id)
        \/ \E id \in CallIds : FirstCall(p) /\ Quiet(p) /\ send_task_message_stream(p, id)
        \/ send_task_message_stream_resume_working(p)
        \/ send_task_message_stream_handler_returns(p)
        \/ send_task_message_stream_handler_raises(p)
        \/ send_task_message_stream_resume_final(p)
        \/ send_task_message_stream_on_task_updated_returns(p)
        \/ send_task_message_stream_on_task_updated_raises(p)
        \/ send_task_message_stream_resume_failed(p)
        \/ \E id \in CallIds : FirstCall(p) /\ Quiet(p) /\ cancel_task(p, id)
        \/ \E id \in CallIds : FirstCall(p) /\ Quiet(p) /\ resubscribe_task(p, id)
        \/ resubscribe_task_resume(p)

SpecErrors == InitErrors /\ [][NextErrors]_vars

\* ---- callers that each make one request to a non-streaming route, started
\* when no other engine operation is in progress; the stored task is COMPLETED,
\* the Handler and the Agent-Card Provider are registered or not, and the
\* provider answers with a card for the url it was asked about
InitRoutes ==
    /\ heap = <<Task(1, None, COMPLETED, None, <<>>)>>
    /\ tasks = <<1>>
    /\ handlers \in {h \in CardConfigs : /\ ~ h.on_task_created /\ ~ h.on_task_updated
                                         /\ ~ h.on_task_canceled}
    /\ frame = [p \in Procs |-> IdleFrame]
    /\ nextMsg = 0
    /\ heap0 = heap

NextRoutes ==
    \E p \in Procs :
        \/ \E agent_url \in AgentUrls : FirstCall(p) /\ Quiet(p) /\ get_agent_card(p, agent_url)
        \/ \E card \in AgentCards :
                /\ Some(card.url) = frame[p].agent_url
                /\ get_agent_card_provider_returns(p, card)
        \/ get_agent_card_provider_raises(p)
        \/ FirstCall(p) /\ Quiet(p) /\ process_message(p)
        \/ process_message_handler_returns(p)
        \/ process_message_handler_raises(p)
        \/ FirstCall(p) /\ Quiet(p) /\ create_task(p, None)
        \/ create_task_handler_returns(p)
        \/ create_task_handler_raises(p)
        \/ \E id \in CallIds : FirstCall(p) /\ Quiet(p) /\ get_task(p, id, None)
        \/ \E id \in CallIds : FirstCall(p) /\ Quiet(p) /\ fastapi_get_task_invalid_metadata(p, id)
        \/ \E id \in CallIds : FirstCall(p) /\ Quiet(p) /\ send_task_message_not_found(p, id, TRUE, None)
        \/ \E id \in CallIds : FirstCall(p) /\ Quiet(p) /\ send_task_message(p, id, TRUE, None)
        \/ send_task_message_handler_returns(p)
        \/ send_task_message_handler_raises(p)
        \/ \E id \in CallIds : FirstCall(p) /\ Quiet(p) /\ cancel_task(p, id)
        \/ \E op \in {"create_task", "process_message"},
              e \in {OtherException, InvalidParamsException} :
                FirstCall(p) /\ Quiet(p) /\ fastapi_route_raises(p, op, e)
        \/ fastapi_respond(p)

SpecRoutes == InitRoutes /\ [][NextRoutes]_vars

\* ---- callers that make get_agent_card calls, any number in any order, on an
\* engine whose store holds one task; only the Agent-Card Provider is
\* registered, or nothing
InitCard ==
    /\ heap = <<Task(1, None, SUBMITTED, None, <<>>)>>
    /\ tasks = <<1>>
    /\ handlers \in {h \in CardConfigs :
                        /\ ~ h.on_message_received /\ ~ h.on_task_created
                        /\ ~ h.on_task_updated /\ ~ h.on_task_canceled}
    /\ frame = [p \in Procs |-> IdleFrame]
    /\ nextMsg = 0
    /\ heap0 = heap

NextCard ==
    \E p \in Procs :
        \/ \E agent_url \in AgentUrls : get_agent_card(p, agent_url)
        \/ \E card \in AgentCards : get_agent_card_provider_returns(p, card)
        \/ get_agent_card_provider_raises(p)

SpecCard == InitCard /\ [][NextCard]_vars

\* createTask invocations that overlap one another and deletions of stored
\* tasks, from a store that holds one task
NextIds ==
    \E p \in Procs :
        \/ \E s \in SessionIds : FirstCall(p) /\ create_task(p, s)
        \/ create_task_on_task_created_returns(p)
        \/ create_task_handler_returns(p)
        \/ create_task_handler_raises(p)
        \/ create_task_on_task_updated_returns(p)
        \/ create_task_on_task_updated_raises(p)
        \/ \E id \in CallIds : FirstCall(p) /\ store_delete_task(p, id)

SpecIds == InitEngine /\ [][NextIds]_vars

\* ---- callers that call get_task, with or without a history_length
GetHistoryLengths == {None, Some(0), Some(1), Some(2), Some(3)}

NextGet ==
    \E p \in Procs :
        \E id \in CallIds, n \in GetHistoryLengths : get_task(p, id, n)

InitGet ==
    /\ InitStored
    /\ NoCallbacks

SpecGet == InitGet /\ [][NextGet]_vars

\* ==================================================================== claims
\* the terminal states as the specification names them
Terminal == {COMPLETED, FAILED, CANCELED}

\* the stored Task under id (the object _tasks[id] refers to)
Stored(id) == heap[tasks[id]]
StoredNext(id) == heap'[tasks'[id]]
StoredIds == DOMAIN tasks

\* the edges of the task state machine; cancelTask's edge to CANCELED is
\* counted as legal from every non-terminal state
LegalEdges ==
    {<<SUBMITTED, WORKING>>, <<WORKING, COMPLETED>>, <<WORKING, FAILED>>,
     <<WORKING, CANCELED>>, <<WORKING, INPUT_REQUIRED>>, <<INPUT_REQUIRED, WORKING>>,
     <<SUBMITTED, CANCELED>>, <<INPUT_REQUIRED, CANCELED>>}

\* C1: state-machine legality: every change of a stored task's status.state
\* follows an edge of SUBMITTED->WORKING->{COMPLETED, FAILED, CANCELED}
\* (plus WORKING<->INPUT_REQUIRED), and once the stored state is COMPLETED,
\* FAILED or CANCELED no operation changes it.
C1_StateMachineLegality ==
    [][\A id \in StoredIds :
          /\ Stored(id).state \in Terminal => StoredNext(id).state = Stored(id).state
          /\ StoredNext(id).state # Stored(id).state
                => <<Stored(id).state, StoredNext(id).state>> \in LegalEdges]_vars

\* C2: append-only history: no operation of the engine or of the transport
\* shortens a stored history or changes an entry that is already in it.
C2_AppendOnlyHistory ==
    [][\A id \in StoredIds :
          LET before == Stored(id).history
              after == StoredNext(id).history
          IN  /\ Len(after) >= Len(before)
              /\ SubSeq(after, 1, Len(before)) = before]_vars

\* C3: history truncation is a view: getTask(id, history_length=1) on a stored
\* task with k >= 2 history entries returns a task with exactly one entry and
\* leaves the value held by the store unchanged, so that a following getTask(id)
\* with no limit returns all k entries.
C3_TruncationIsAView ==
    [][\A p \in Procs, id \in StoredIds :
          (get_task(p, id, Some(1)) /\ Len(Stored(id).history) >= 2)
             => /\ Len(frame'[p].returned[1].history) = 1
                /\ StoredNext(id).history = Stored(id).history]_vars

\* operations that assign to a stored task
MutatingOps == {"create_task", "send_task_message", "send_task_message_stream", "cancel_task"}

\* invocation f has loaded (or created) its task and a persist of it is still to come
InCycle(f) ==
    /\ f.op \in MutatingOps
    /\ \/ f.pc \in {"on_task_created", "on_message_received"}
       \/ f.pc = "yield_working" /\ handlers.on_message_received

\* this step is caller q loading, assigning to or persisting the task object ref
\* in a mutating operation (the start of one, or the continuation of its cycle)
Touches(q, ref) ==
    /\ frame'[q] # frame[q]
    /\ frame'[q].op \in MutatingOps
    /\ frame'[q].task = ref
    /\ CanCall(q) \/ InCycle(frame[q])

\* C4: per-task serialization: while one operation on a task is between its
\* load and its last persist, no other mutating operation on the same task
\* performs its load, mutation or persist.
C4_PerTaskSerialization ==
    [][\A p \in Procs, q \in Procs :
          (p # q /\ InCycle(frame[p])) => ~ Touches(q, frame[p].task)]_vars

\* C6: single terminal outcome: a createTask or sendTaskMessage invocation on a
\* task that has run to its end (returned or raised) has assigned exactly one
\* of COMPLETED, FAILED to the task.
C6_SingleTerminalOutcome ==
    \A p \in Procs :
        (/\ frame[p].op \in {"create_task", "send_task_message"}
         /\ frame[p].pc = "done"
         /\ frame[p].task # 0)
            => /\ Len(frame[p].transitions) = 1
               /\ frame[p].transitions[1] \in {COMPLETED, FAILED}

\* the events of invocation f that carry final=true
FinalEvents(f) == {i \in DOMAIN f.events : f.events[i].final}

\* C7: single final event: a sendTaskMessageStream invocation on a task that
\* was consumed to its end has emitted exactly one event with final=true.
C7_SingleFinalEvent ==
    \A p \in Procs :
        (/\ frame[p].op = "send_task_message_stream"
         /\ frame[p].pc = "done"
         /\ frame[p].task # 0)
            => Cardinality(FinalEvents(frame[p])) = 1

\* C8: cancel racing an in-flight Handler: when the Handler of an invocation
\* returns or raises and the stored state of its task is CANCELED (a cancelTask
\* succeeded while the Handler was in progress), the stored state stays CANCELED.
C8_CancelNotOverwritten ==
    [][\A p \in Procs :
          (/\ frame[p].pc = "on_message_received"
           /\ frame'[p] # frame[p]
           /\ frame[p].task_id \in StoredIds
           /\ Stored(frame[p].task_id).state = CANCELED)
              => StoredNext(frame[p].task_id).state = CANCELED]_vars

\* the send_task_message invocations that loaded the task stored under id
SendCalls(id) ==
    {p \in Procs : /\ frame[p].op = "send_task_message"
                   /\ frame[p].task_id = id
                   /\ frame[p].task # 0}

\* the positions of message m in history h
Occurrences(h, m) == {i \in DOMAIN h : h[i] = m}

\* C5: no lost update under concurrent sends: when two (or more) sendTaskMessage
\* calls on the same task id have all ended and each Handler returned a
\* response, the stored history is the initial history followed by two entries
\* per call: each call's inbound message and each call's response occur exactly
\* once, the response after the inbound message.
C5_NoLostUpdate ==
    \A id \in StoredIds :
        LET calls == SendCalls(id)
            h == Stored(id).history
            h0 == heap0[tasks[id]].history
        IN  (/\ Cardinality(calls) >= 2
             /\ \A p \in calls : frame[p].pc = "done" /\ frame[p].response # None)
                => /\ Len(h) = Len(h0) + 2 * Cardinality(calls)
                   /\ SubSeq(h, 1, Len(h0)) = h0
                   /\ \A p \in calls :
                        \E i \in DOMAIN h, j \in DOMAIN h :
                            /\ i < j
                            /\ Occurrences(h, frame[p].message[1]) = {i}
                            /\ Occurrences(h, frame[p].response[1]) = {j}

\* witness of C5: two sends on one task have ended with a response each, and
\* they overlapped (both inbound messages precede both responses)
C5_Witness ==
    \E id \in StoredIds, p \in Procs, q \in Procs :
        LET h == Stored(id).history
            n == Len(h)
        IN  /\ p # q
            /\ {p, q} \subseteq SendCalls(id)
            /\ frame[p].pc = "done" /\ frame[p].response # None
            /\ frame[q].pc = "done" /\ frame[q].response # None
            /\ n >= 4
            /\ h[n - 3] = frame[p].message[1]
            /\ h[n - 2] = frame[q].message[1]
            /\ {h[n - 1], h[n]} = {frame[p].response[1], frame[q].response[1]}

\* the cancel_task invocations on id
CancelCalls(id) == {p \in Procs : frame[p].op = "cancel_task" /\ frame[p].task_id = id}

CreateEnded == {p \in Procs : frame[p].op = "create_task" /\ frame[p].pc = "done"}

\* C11: createTask success path: with a Handler registered that returns
\* response r for inbound message m, createTask({session_id, m}) returns a task
\* whose state is COMPLETED, whose status.message is r, whose history is exactly
\* [m, r] and whose session_id is the supplied one, and the stored task for the
\* returned id is equal to the returned task.
C11_CreateSuccess ==
    \A p \in CreateEnded :
        frame[p].response # None
            => LET f == frame[p]
                   m == f.message[1]
                   r == f.response[1]
               IN  /\ f.result = RETURN
                   /\ f.returned =
                         Some(Task(f.task_id, f.session_id, COMPLETED, Some(r), <<m, r>>))
                   /\ Store_task_exists(tasks, f.task_id)
                   /\ Some(Stored(f.task_id)) = f.returned

\* C12: createTask failure path: when the Handler raises during createTask, the
\* task remains stored with state FAILED and history containing only the
\* inbound message, and the call fails with InternalError (code -32603) and
\* returns no task.
C12_CreateFailure ==
    /\ [][\A p \in Procs :
            (/\ frame[p].op = "create_task"
             /\ frame[p].pc = "on_message_received"
             /\ frame'[p].pc = "done"
             /\ frame'[p].response = None)
                => /\ frame'[p].result = InternalErrorException
                   /\ StoredNext(frame[p].task_id).state = FAILED]_vars
    /\ [](\A p \in CreateEnded :
            (frame[p].response = None /\ handlers.on_message_received)
                => /\ ErrorCode(frame[p].result) = 0 - 32603
                   /\ frame[p].returned = None
                   /\ Store_task_exists(tasks, frame[p].task_id)
                   /\ Stored(frame[p].task_id).state = FAILED
                   /\ Stored(frame[p].task_id).history = <<frame[p].message[1]>>)

\* witness of C12: a createTask whose Handler raised has ended
C12_Witness ==
    \E p \in CreateEnded :
        /\ handlers.on_message_received
        /\ frame[p].response = None
        /\ frame[p].result = InternalErrorException
        /\ Stored(frame[p].task_id).state = FAILED

\* the create_task invocations whose Handler has been invoked
HandlerStarted ==
    {p \in Procs : /\ frame[p].op = "create_task"
                   /\ handlers.on_message_received
                   /\ frame[p].pc \in {"on_message_received", "on_task_updated", "done"}}

\* C13: store-before-handle ordering: in every createTask invocation the new
\* task is in the Task Store from the first point at which another coroutine
\* can run, with state SUBMITTED while the invocation has not yet gone on to
\* WORKING, and in every state in which the Handler of that invocation has
\* started exists(id) is true for the new id.
C13_StoreBeforeHandle ==
    \A p \in Procs :
        frame[p].op = "create_task"
            => /\ Store_task_exists(tasks, frame[p].task_id)
               /\ frame[p].pc = "on_task_created"
                    => Stored(frame[p].task_id).state = SUBMITTED
               /\ p \in HandlerStarted => Store_task_exists(tasks, frame[p].task_id)

\* witness of C13: the Handler of a createTask is in progress and the task is stored
C13_Witness ==
    \E p \in HandlerStarted :
        /\ frame[p].pc = "on_message_received"
        /\ Store_task_exists(tasks, frame[p].task_id)

\* the invocations whose Handler is suspended on the task stored under id
HandlerSuspended(id) ==
    {p \in Procs : frame[p].pc = "on_message_received" /\ frame[p].task_id = id}

\* C14: WORKING is visible mid-flight: in createTask, sendTaskMessage and
\* sendTaskMessageStream the stored state of the task is WORKING at the moment
\* the Handler is invoked and for as long as the Handler is suspended (no other
\* operation assigning to that task), and a getTask made while the Handler is
\* suspended returns a task in state WORKING.
C14_WorkingVisible ==
    /\ [](\A id \in StoredIds : HandlerSuspended(id) # {} => Stored(id).state = WORKING)
    /\ [][\A q \in Procs, id \in StoredIds :
            (get_task(q, id, None) /\ HandlerSuspended(id) # {})
                => /\ frame'[q].result = RETURN
                   /\ frame'[q].returned[1].state = WORKING]_vars

\* witness of C14: a getTask has returned WORKING for a task that createTask
\* made (stored as SUBMITTED) while the Handler of that createTask is suspended
C14_Witness ==
    \E p \in Procs, q \in Procs :
        /\ frame[p].op = "create_task"
        /\ p \in HandlerSuspended(frame[p].task_id)
        /\ frame[q].op = "get_task"
        /\ frame[q].task_id = frame[p].task_id
        /\ frame[q].result = RETURN
        /\ frame[q].returned[1].state = WORKING

\* no caller other than p has made a call
Alone(p) == \A q \in Procs \ {p} : frame[q].pc = "idle"

\* C15: sendTaskMessage(id, m) run without interference: if id is absent it
\* fails with NotFound, invokes no Handler and leaves the store unchanged;
\* otherwise it appends m to the stored history, and on Handler success with
\* response r ends with history = old history + [m, r] and state COMPLETED with
\* status.message = r, while on Handler failure it ends with history = old
\* history + [m], state FAILED and the call fails with InternalError.
C15_SendOutcome ==
    \A p \in Procs :
        (frame[p].op = "send_task_message" /\ frame[p].pc = "done" /\ Alone(p))
            => LET f == frame[p]
               IN  IF ~ Store_task_exists(tasks, f.task_id)
                   THEN /\ f.result = TaskNotFoundException
                        /\ f.response = None
                        /\ f.transitions = <<>>
                        /\ heap = heap0
                        /\ DOMAIN tasks = DOMAIN heap0
                   ELSE LET old == heap0[f.task].history
                            m == f.message[1]
                            cur == Stored(f.task_id)
                        IN  /\ SubSeq(cur.history, 1, Len(old) + 1) = Append(old, m)
                            /\ f.response # None
                                 => /\ cur.history = old \o <<m, f.response[1]>>
                                    /\ cur.state = COMPLETED
                                    /\ cur.message = f.response
                            /\ (f.response = None /\ handlers.on_message_received)
                                 => /\ cur.history = Append(old, m)
                                    /\ cur.state = FAILED
                                    /\ f.result = InternalErrorException

\* the send_task_message_stream invocations on a stored task that were consumed to the end
StreamEnded ==
    {p \in Procs : /\ frame[p].op = "send_task_message_stream"
                   /\ frame[p].pc = "done"
                   /\ frame[p].task # 0}

\* C16: sendTaskMessageStream event protocol: against an existing task it
\* emits first a status event with state WORKING and final=false, then after
\* the terminal transition a second event with final=true; when the Handler
\* raises, exactly two events are observed - WORKING, then FAILED with
\* final=true - and only after the FAILED event has been emitted does the call
\* fail with InternalError.
C16_StreamProtocol ==
    \A p \in Procs :
        LET f == frame[p]
            ev == f.events
        IN  /\ (f.op = "send_task_message_stream" /\ f.task # 0)
                 => /\ Len(ev) >= 1
                    /\ ev[1].state = WORKING
                    /\ ~ ev[1].final
                    /\ f.result = InternalErrorException
                         => ev[Len(ev)].state = FAILED /\ ev[Len(ev)].final
            /\ p \in StreamEnded
                 => /\ Len(ev) >= 2
                    /\ ev[2].final
                    /\ ev[2].state \in Terminal
                    /\ (f.response = None /\ handlers.on_message_received)
                         => /\ Len(ev) = 2
                            /\ ev[2].state = FAILED
                            /\ f.result = InternalErrorException

\* the event streams that have ended
StreamsEnded ==
    {p \in Procs : /\ frame[p].op \in {"send_task_message_stream", "resubscribe_task"}
                   /\ frame[p].pc = "done"
                   /\ frame[p].task # 0}

\* C17: stream closure: for every finite event stream produced by
\* sendTaskMessageStream or resubscribeTask (any Handler outcome including no
\* Handler registered, any current task state) the events appear in the order
\* of the state transitions and the last event of the stream has final=true.
C17_StreamClosure ==
    \A p \in StreamsEnded :
        LET ev == frame[p].events
        IN  /\ ev # <<>>
            /\ ev[Len(ev)].final
            /\ frame[p].op = "send_task_message_stream"
                 => [i \in DOMAIN ev |-> ev[i].state] = <<WORKING>> \o frame[p].transitions

\* C18: final implies terminal: every event emitted by sendTaskMessageStream
\* or resubscribeTask with final=true carries a status whose state is
\* COMPLETED, FAILED or CANCELED, at the moment it is emitted the stored state
\* of that task is terminal, and no event with final=true is followed by
\* another event in the same stream.
C18_FinalImpliesTerminal ==
    /\ [](\A p \in Procs :
            \A i \in DOMAIN frame[p].events :
                frame[p].events[i].final
                    => /\ frame[p].events[i].state \in Terminal
                       /\ i = Len(frame[p].events))
    /\ [][\A p \in Procs :
            (/\ Len(frame'[p].events) = Len(frame[p].events) + 1
             /\ frame'[p].events[Len(frame'[p].events)].final)
                => StoredNext(frame'[p].task_id).state \in Terminal]_vars

\* C19: resubscribeTask(id) on an existing task emits exactly one event whose
\* status equals the task's current stored status, with final=true if and only
\* if that state is COMPLETED, FAILED or CANCELED, and leaves the whole store
\* unchanged; on an unknown id it emits no event and fails with NotFound.
C19_Resubscribe ==
    [][\A p \in Procs :
          /\ \A id \in CallIds :
                resubscribe_task(p, id)
                    => /\ heap' = heap
                       /\ tasks' = tasks
                       /\ IF id \in StoredIds
                          THEN frame'[p].events =
                                   <<[id |-> id, state |-> Stored(id).state,
                                      message |-> Stored(id).message,
                                      final |-> (Stored(id).state \in Terminal)]>>
                          ELSE /\ frame'[p].events = <<>>
                               /\ frame'[p].pc = "done"
                               /\ frame'[p].result = TaskNotFoundException
          /\ resubscribe_task_resume(p)
                => /\ heap' = heap
                   /\ tasks' = tasks
                   /\ frame'[p].events = frame[p].events
                   /\ Len(frame'[p].events) = 1
                   /\ frame'[p].pc = "done"
                   /\ frame'[p].result = RETURN]_vars

\* witness of C19: one resubscribeTask stream has ended after its one event,
\* final=true for a CANCELED task, and another call has failed with NotFound
C19_Witness ==
    \E p \in Procs, q \in Procs :
        /\ frame[p].op = "resubscribe_task"
        /\ frame[p].pc = "done"
        /\ frame[p].result = RETURN
        /\ Len(frame[p].events) = 1
        /\ frame[p].events[1].final
        /\ frame[p].events[1].state = CANCELED
        /\ frame[q].op = "resubscribe_task"
        /\ frame[q].result = TaskNotFoundException
        /\ frame[q].events = <<>>

\* no caller other than p has made a call that assigns to a task
OnlyWriter(p) == \A q \in Procs \ {p} : frame[q].pc = "idle" \/ frame[q].op \in ObserverOps

\* the terminal states an invocation assigns, by the outcome of its callbacks:
\* none without a Handler, FAILED when the Handler raised, COMPLETED when it
\* returned (followed by FAILED when the on_task_updated hook then raised)
OutcomeTraces(f) ==
    IF ~ handlers.on_message_received THEN {<<>>}
    ELSE IF f.response = None THEN {<<FAILED>>}
    ELSE IF handlers.on_task_updated THEN {<<COMPLETED>>, <<COMPLETED, FAILED>>}
    ELSE {<<COMPLETED>>}

\* the stored task an invocation that got old from the store leaves behind
\* after inbound message m, response (or None) and the terminal states trace
Outcome(old, m, response, trace) ==
    LET state == IF trace = <<>> THEN WORKING ELSE trace[Len(trace)]
    IN  [old EXCEPT !.state = state,
                    !.message = IF state = COMPLETED THEN response ELSE None,
                    !.history = old.history \o <<m>> \o response]

\* C20: streaming/non-streaming equivalence: started from the same stored task
\* with the same inbound message and the same Handler outcome (success,
\* failure, or no Handler), a fully consumed sendTaskMessageStream and a
\* sendTaskMessage drive the stored task through the same sequence of states
\* (WORKING, then the terminal states of the outcome) and end with the same
\* stored state, status.message and history, and each fails with InternalError
\* exactly when the last state is FAILED: one function of the old task, the
\* message and the outcome describes both.
C20_StreamEquivalence ==
    \A p \in Procs :
        LET f == frame[p]
        IN  (/\ f.op \in {"send_task_message", "send_task_message_stream"}
             /\ f.task # 0
             /\ OnlyWriter(p))
                => LET old == heap0[f.task]
                       m == f.message[1]
                       cur == heap[f.task]
                   IN  IF f.pc = "done"
                       THEN /\ f.transitions \in OutcomeTraces(f)
                            /\ cur = Outcome(old, m, f.response, f.transitions)
                            /\ f.result = (IF cur.state = FAILED
                                           THEN InternalErrorException ELSE RETURN)
                       ELSE /\ f.transitions \in {<<>>, <<COMPLETED>>, <<FAILED>>, <<COMPLETED, FAILED>>}
                            /\ cur = Outcome(old, m, f.response, f.transitions)

\* witness of C20: a sendTaskMessageStream that ran alone on a stored task was
\* consumed to its end after its Handler returned a response
C20_Witness ==
    \E p \in StreamEnded :
        /\ OnlyWriter(p)
        /\ frame[p].response # None
        /\ frame[p].transitions = <<COMPLETED>>
        /\ Len(heap0[frame[p].task].history) = 2
        /\ frame[p].result = RETURN

\* C21: processMessage is stateless: it invokes the Handler once and returns
\* its response without creating, reading or modifying any task (the Task
\* Store is unchanged in every outcome); it fails with an error when no Handler
\* is registered, and fails with InternalError when the Handler raises.
C21_ProcessMessageStateless ==
    [][\A p \in Procs :
          /\ (frame'[p] # frame[p] /\ process_message(p))
                => /\ heap' = heap /\ tasks' = tasks
                   /\ IF handlers.on_message_received
                      THEN frame'[p].pc = "on_message_received" /\ frame'[p].calls = 1
                      ELSE /\ frame'[p].pc = "done"
                           /\ frame'[p].result = InternalErrorException
                           /\ frame'[p].calls = 0
          /\ (frame'[p] # frame[p] /\ process_message_handler_returns(p))
                => /\ heap' = heap /\ tasks' = tasks
                   /\ frame'[p].pc = "done"
                   /\ frame'[p].result = RETURN
                   /\ frame'[p].value = Some(HandlerResponse(frame[p].message[1]))
                   /\ frame'[p].calls = 1
          /\ (frame'[p] # frame[p] /\ process_message_handler_raises(p))
                => /\ heap' = heap /\ tasks' = tasks
                   /\ frame'[p].pc = "done"
                   /\ frame'[p].result = InternalErrorException
                   /\ frame'[p].calls = 1]_vars

\* witness of C21: one processMessage has returned the Handler's response and
\* another has failed with InternalError
C21_Witness ==
    \E p \in Procs, q \in Procs :
        /\ frame[p].op = "process_message"
        /\ frame[p].result = RETURN
        /\ frame[p].value = frame[p].response
        /\ frame[q].op = "process_message"
        /\ frame[q].result = InternalErrorException
        /\ heap = heap0

\* this step of caller p awaits task_store.update_task
CallsUpdate(p) ==
    \/ create_task_on_task_created_returns(p)
    \/ create_task_handler_returns(p)
    \/ create_task_handler_raises(p)
    \/ create_task_on_task_updated_raises(p)
    \/ send_task_message_handler_returns(p)
    \/ send_task_message_handler_raises(p)
    \/ send_task_message_on_task_updated_raises(p)
    \/ send_task_message_stream_handler_returns(p)
    \/ send_task_message_stream_handler_raises(p)
    \/ send_task_message_stream_on_task_updated_raises(p)

\* this step of caller p is the start of an operation on id, which awaits
\* task_store.get_task
CallsGet(p, id) ==
    \/ get_task(p, id, None)
    \/ send_task_message_not_found(p, id, FALSE, None)
    \/ send_task_message(p, id, FALSE, None)
    \/ send_task_message_stream_not_found(p, id)
    \/ send_task_message_stream(p, id)
    \/ cancel_task(p, id)
    \/ resubscribe_task(p, id)

\* C22: store errors propagate unchanged: whenever a Task Store call made by
\* createTask, getTask, sendTaskMessage, sendTaskMessageStream, cancelTask or
\* resubscribeTask fails with NotFound (including an update_task that fails
\* because the task was deleted while the Handler was running), the engine
\* operation fails with NotFound (code -32001) and not with InternalError or
\* any other kind.
C22_StoreErrorsPropagate ==
    [][\A p \in Procs :
          /\ (/\ frame'[p] # frame[p]
              /\ ~ CanCall(p)
              /\ ~ Store_task_exists(tasks, frame[p].task_id)
              /\ CallsUpdate(p))
                => /\ frame'[p].pc = "done"
                   /\ frame'[p].result = TaskNotFoundException
                   /\ ErrorCode(frame'[p].result) = 0 - 32001
          /\ \A id \in CallIds :
                (/\ frame'[p] # frame[p]
                 /\ CanCall(p)
                 /\ ~ Store_task_exists(tasks, id)
                 /\ CallsGet(p, id))
                    => /\ frame'[p].pc = "done"
                       /\ frame'[p].result = TaskNotFoundException
                       /\ ErrorCode(frame'[p].result) = 0 - 32001]_vars

\* witness of C22: a sendTaskMessage whose task was deleted while its Handler
\* was running has failed with NotFound
C22_Witness ==
    \E p \in Procs :
        /\ frame[p].op = "send_task_message"
        /\ frame[p].calls = 1
        /\ frame[p].pc = "done"
        /\ frame[p].result = TaskNotFoundException

\* C23: no automatic retry: each invocation of processMessage, createTask,
\* sendTaskMessage or sendTaskMessageStream calls the Message Handler at most
\* once, whether the Handler succeeds or raises; cancelTask, getTask and
\* resubscribeTask never call it.
C23_NoRetry ==
    \A p \in Procs :
        /\ frame[p].calls <= 1
        /\ frame[p].op \in {"cancel_task", "get_task", "resubscribe_task"}
             => frame[p].calls = 0
        /\ frame[p].calls = 1
             => frame[p].op \in {"process_message", "create_task", "send_task_message",
                                 "send_task_message_stream"}

\* witness of C23: a sendTaskMessage whose Handler raised has ended after one call
C23_Witness ==
    \E p \in Procs :
        /\ frame[p].op = "send_task_message"
        /\ frame[p].pc = "done"
        /\ frame[p].response = None
        /\ frame[p].result = InternalErrorException
        /\ frame[p].calls = 1

\* the Task object a store call was handed
Arg(arg) == arg[1][arg[2]]

\* what create(task) does, as the claim states it
CreateEffect(p, arg) ==
    LET t == Arg(arg)
    IN  IF Store_task_exists(tasks, t.id)
        THEN /\ frame'[p].result = ValueError
             /\ tasks' = tasks
             /\ StoredNext(t.id) = Stored(t.id)
        ELSE /\ frame'[p].result = RETURN
             /\ frame'[p].returned = Some(t)
             /\ DOMAIN tasks' = DOMAIN tasks \cup {t.id}
             /\ tasks'[t.id] = arg[2]
             /\ StoredNext(t.id) = t
             /\ \A k \in DOMAIN tasks : tasks'[k] = tasks[k]

\* C24: store create is first-writer-wins: create(task) fails with an
\* already-exists error (ValueError) and leaves the stored value unchanged when
\* task.id is already present, otherwise it inserts the task and returns it;
\* over any sequence of store calls an id leaves the store only by a delete of
\* that id, so there are never two successful creates for one id without an
\* intervening delete of that id.
C24_CreateFirstWriterWins ==
    [][/\ \A p \in Procs : \A arg \in TaskArgs :
            store_create_task(p, arg) => CreateEffect(p, arg)
       /\ \A id \in DOMAIN tasks :
            id \notin DOMAIN tasks'
                => \E p \in Procs : store_delete_task(p, id)]_vars

\* C24 as amended: the same, where an id leaves the store only by a delete of
\* that id or by a clear of the store, so there are never two successful
\* creates for one id without an intervening delete of that id or clear.
C24_CreateFirstWriterWinsAmended ==
    [][/\ \A p \in Procs : \A arg \in TaskArgs :
            store_create_task(p, arg) => CreateEffect(p, arg)
       /\ \A id \in DOMAIN tasks :
            id \notin DOMAIN tasks'
                => \E p \in Procs : store_delete_task(p, id) \/ store_clear(p)]_vars

\* witness of C24: a create for an id that is present has failed with ValueError
C24_Witness ==
    \E p \in Procs :
        /\ frame[p].op = "store_create_task"
        /\ frame[p].result = ValueError
        /\ Store_task_exists(tasks, frame[p].task_id)

\* C25: store round-trip: after create(t) for an id not yet in the store,
\* get(t.id) is t and exists(t.id) is true; after update(t') a get returns t';
\* after delete(id) exists(id) is false and get(id) fails with NotFound (get
\* returns the stored value of a present id and fails with NotFound for an
\* absent one, exists tells whether the id is present).
C25_StoreRoundTrip ==
    [][\A p \in Procs :
          /\ \A arg \in TaskArgs :
                /\ (store_create_task(p, arg) /\ ~ Store_task_exists(tasks, Arg(arg).id))
                      => /\ Store_task_exists(tasks', Arg(arg).id)
                         /\ heap'[Store_get_task(tasks', Arg(arg).id)] = Arg(arg)
                /\ (store_update_task(p, arg) /\ Store_task_exists(tasks, Arg(arg).id))
                      => /\ Store_task_exists(tasks', Arg(arg).id)
                         /\ heap'[Store_get_task(tasks', Arg(arg).id)] = Arg(arg)
          /\ \A id \in QueryIds :
                /\ store_delete_task(p, id) => ~ Store_task_exists(tasks', id)
                /\ store_get_task(p, id)
                      => IF Store_task_exists(tasks, id)
                         THEN /\ frame'[p].result = RETURN
                              /\ frame'[p].returned = Some(Stored(id))
                         ELSE frame'[p].result = TaskNotFoundException
                /\ store_task_exists(p, id)
                      => frame'[p].value = Some(Store_task_exists(tasks, id))]_vars

\* witness of C25: a get of the id the store started with has failed with
\* NotFound (the task was deleted)
C25_Witness ==
    \E p \in Procs :
        /\ frame[p].op = "store_get_task"
        /\ frame[p].task_id = 1
        /\ frame[p].result = TaskNotFoundException
        /\ Len(heap) > Len(heap0)

\* C26: store update never inserts: update(task) with task.id absent fails
\* with NotFound and leaves the store unchanged (the id is still absent
\* afterwards); with task.id present it replaces exactly that entry and leaves
\* every other entry unchanged.
C26_UpdateNeverInserts ==
    [][\A p \in Procs : \A arg \in TaskArgs :
          store_update_task(p, arg)
              => LET t == Arg(arg)
                 IN  IF ~ Store_task_exists(tasks, t.id)
                     THEN /\ frame'[p].result = TaskNotFoundException
                          /\ tasks' = tasks
                          /\ ~ Store_task_exists(tasks', t.id)
                     ELSE /\ frame'[p].result = RETURN
                          /\ frame'[p].returned = Some(t)
                          /\ DOMAIN tasks' = DOMAIN tasks
                          /\ tasks'[t.id] = arg[2]
                          /\ \A k \in DOMAIN tasks \ {t.id} :
                                tasks'[k] = tasks[k] /\ StoredNext(k) = Stored(k)]_vars

\* witness of C26: an update for an absent id has failed with NotFound and the
\* id is absent
C26_Witness ==
    \E p \in Procs :
        /\ frame[p].op = "store_update_task"
        /\ frame[p].result = TaskNotFoundException
        /\ ~ Store_task_exists(tasks, frame[p].task_id)

\* C27: store delete is total: delete(id) never fails; it returns true and
\* removes exactly that entry when id is present, and returns false and leaves
\* the store unchanged when id is absent.
C27_DeleteTotal ==
    [][\A p \in Procs : \A id \in QueryIds :
          store_delete_task(p, id)
              => /\ frame'[p].result = RETURN
                 /\ heap' = heap
                 /\ IF Store_task_exists(tasks, id)
                    THEN /\ frame'[p].value = Some(TRUE)
                         /\ DOMAIN tasks' = DOMAIN tasks \ {id}
                         /\ \A k \in DOMAIN tasks' : tasks'[k] = tasks[k]
                    ELSE /\ frame'[p].value = Some(FALSE)
                         /\ tasks' = tasks]_vars

\* witness of C27: a delete of the id the store started with has returned
\* false (it had been deleted before)
C27_Witness ==
    \E p \in Procs :
        /\ frame[p].op = "store_delete_task"
        /\ frame[p].task_id = 1
        /\ frame[p].result = RETURN
        /\ frame[p].value = Some(FALSE)

\* the positions of list out that hold the task stored under k
ListedAt(out, k) == {i \in DOMAIN out : out[i] = Stored(k)}

\* C28: store list filtering: list() with no argument returns every stored
\* task exactly once, and list(session_id=s) returns exactly the stored tasks
\* whose session_id equals s (none missing, none extra, tasks with no
\* session_id excluded); list does not change the store.
C28_ListFiltering ==
    [][\A p \in Procs : \A s \in CallerSessions :
          store_list_tasks(p, s)
              => LET out == frame'[p].value[1]
                     wanted == {k \in DOMAIN tasks : s = None \/ Stored(k).session_id = s}
                 IN  /\ heap' = heap
                     /\ tasks' = tasks
                     /\ frame'[p].result = RETURN
                     /\ Len(out) = Cardinality(wanted)
                     /\ \A k \in wanted : Cardinality(ListedAt(out, k)) = 1
                     /\ \A k \in DOMAIN tasks \ wanted : ListedAt(out, k) = {}]_vars

\* witness of C28: list(session_id="s1") has returned one task of a store that
\* holds two, the other with no session_id
C28_Witness ==
    \E p \in Procs :
        /\ frame[p].op = "store_list_tasks"
        /\ frame[p].session_id = Some("s1")
        /\ Len(frame[p].value[1]) = 1
        /\ Cardinality(DOMAIN tasks) = 2
        /\ \E k \in DOMAIN tasks : Stored(k).session_id = None

\* the last min(n, Len(seq)) entries of seq in their order
LastMin(seq, n) ==
    LET m == IF n < Len(seq) THEN n ELSE Len(seq)
    IN  SubSeq(seq, Len(seq) - m + 1, Len(seq))

\* C29: getTask history view size: for a stored task with k history entries
\* and any history_length n >= 0, getTask(id, history_length=n) returns a task
\* whose history is the last min(n, k) stored entries in their stored order (in
\* particular n = 0 returns an empty history and n >= k returns all k entries);
\* for an unknown id it fails with NotFound.
C29_HistoryViewSize ==
    [][\A p \in Procs : \A id \in CallIds : \A n \in GetHistoryLengths \ {None} :
          get_task(p, id, n)
              => IF Store_task_exists(tasks, id)
                 THEN /\ frame'[p].result = RETURN
                      /\ frame'[p].returned[1].history = LastMin(Stored(id).history, n[1])
                 ELSE frame'[p].result = TaskNotFoundException]_vars

C35_AgentCard ==
    [][\A p \in Procs :
          /\ \A agent_url \in AgentUrls :
                (frame'[p] # frame[p] /\ get_agent_card(p, agent_url))
                    => /\ heap' = heap /\ tasks' = tasks
                       /\ frame'[p].agent_url = Some(agent_url)
                       /\ IF handlers.on_agent_card_query
                          THEN frame'[p].pc = "on_agent_card_query"
                          ELSE /\ frame'[p].pc = "done"
                               /\ frame'[p].result = InternalErrorException
          /\ \A card \in AgentCards :
                (frame'[p] # frame[p] /\ get_agent_card_provider_returns(p, card))
                    => /\ heap' = heap /\ tasks' = tasks
                       /\ frame'[p].pc = "done"
                       /\ frame'[p].result = RETURN
                       /\ frame'[p].value = Some(card)
                       /\ frame'[p].agent_url = frame[p].agent_url
          /\ (frame'[p] # frame[p] /\ get_agent_card_provider_raises(p))
                => /\ heap' = heap /\ tasks' = tasks
                   /\ frame'[p].pc = "done"
                   /\ frame'[p].result = InternalErrorException]_vars

\* witness of C35: one getAgentCard has returned the provider's card and
\* another has failed with InternalError, the store as it was
C35_Witness ==
    \E p \in Procs, q \in Procs :
        /\ frame[p].op = "get_agent_card"
        /\ frame[p].result = RETURN
        /\ frame[p].value # None
        /\ frame[p].value = frame[p].response
        /\ frame[q].op = "get_agent_card"
        /\ frame[q].result = InternalErrorException
        /\ heap = heap0 /\ tasks = <<1>>

\* the operations of the engine (the protocol operations)
EngineOps ==
    {"create_task", "get_task", "send_task_message", "send_task_message_stream",
     "cancel_task", "resubscribe_task", "process_message"}

\* C31: no protocol operation deletes a task: across any sequence of
\* createTask, getTask, sendTaskMessage, sendTaskMessageStream, cancelTask,
\* resubscribeTask and processMessage (successful or failing), the set of ids
\* present in the Task Store never shrinks; only an explicit store
\* delete/clear removes an id.
C31_NoProtocolDelete ==
    [][/\ \A p \in Procs :
            (frame'[p] # frame[p] /\ frame'[p].op \in EngineOps)
                => DOMAIN tasks \subseteq DOMAIN tasks'
       /\ ~ (DOMAIN tasks \subseteq DOMAIN tasks')
            => \E p \in Procs :
                  \/ \E id \in CallIds : store_delete_task(p, id)
                  \/ store_clear(p)]_vars

\* witness of C31: a sendTaskMessage has failed, a createTask has ended, and
\* the store holds the task it started with and the created one
C31_Witness ==
    \E p \in Procs, q \in Procs :
        /\ frame[p].op = "send_task_message"
        /\ frame[p].result = InternalErrorException
        /\ frame[q].op = "create_task"
        /\ frame[q].pc = "done"
        /\ DOMAIN tasks = {1, frame[q].task_id}

\* C32: independence of distinct tasks: an engine operation on task id A never
\* reads or changes the stored state, status.message or history of a different
\* task id B (every step of it leaves every other stored task as it was, and
\* what it returns or emits is task A), and it can always take its next step
\* regardless of whether an operation on B is in flight (e.g. suspended inside
\* its Handler).
C32_Independence ==
    /\ [][\A p \in Procs :
            (frame'[p] # frame[p] /\ frame'[p].op \in EngineOps)
                => LET A == frame'[p].task_id
                   IN  /\ \A B \in DOMAIN tasks \ {A} :
                            /\ B \in DOMAIN tasks'
                            /\ tasks'[B] = tasks[B]
                            /\ heap'[tasks[B]] = heap[tasks[B]]
                       /\ frame'[p].returned # None => frame'[p].returned[1].id = A
                       /\ \A i \in DOMAIN frame'[p].events :
                            frame'[p].events[i].id = A]_vars
    /\ [](\A p \in Procs : ~ CanCall(p) => ENABLED Continue(p))

\* witness of C32: a sendTaskMessage on one task has returned it COMPLETED
\* while a createTask of another task is suspended in its Handler, that task
\* still WORKING with its one message
C32_Witness ==
    \E p \in Procs, q \in Procs :
        /\ frame[p].op = "create_task"
        /\ frame[p].pc = "on_message_received"
        /\ frame[q].op = "send_task_message"
        /\ frame[q].result = RETURN
        /\ frame[q].task_id # frame[p].task_id
        /\ Stored(frame[q].task_id).state = COMPLETED
        /\ Stored(frame[p].task_id).state = WORKING
        /\ Len(Stored(frame[p].task_id).history) = 1

\* the states the engine assigns
AssignedStates == {SUBMITTED, WORKING, COMPLETED, FAILED, CANCELED}

\* C36: the engine only ever assigns the states SUBMITTED, WORKING, COMPLETED,
\* FAILED and CANCELED: in every state reachable through engine operations
\* alone, no stored task has state UNKNOWN or INPUT_REQUIRED.
C36_AssignedStates ==
    \A k \in DOMAIN tasks :
        /\ Stored(k).state \in AssignedStates
        /\ Stored(k).state \notin {UNKNOWN, INPUT_REQUIRED}

\* witness of C36: operations have ended with the stored tasks in three
\* different states (one sendTaskMessage failed, a cancelTask succeeded)
C36_Witness ==
    \E p \in Procs, q \in Procs :
        /\ frame[p].op = "send_task_message"
        /\ frame[p].result = InternalErrorException
        /\ frame[q].op = "cancel_task"
        /\ frame[q].result = RETURN
        /\ Stored(frame[p].task_id).state \in {FAILED, CANCELED}

\* the last entry of a history
Last(history) == history[Len(history)]

\* C37: completed status embeds the latest response: in every reachable state
\* (including interleavings of concurrent sends on the same task, with no
\* history-limited getTask involved), a stored task whose state is COMPLETED
\* has a status.message equal to the last entry of its history, and that entry
\* is a Handler response; a stored task whose state is SUBMITTED, WORKING,
\* FAILED or CANCELED has no status.message.
C37_CompletedEmbedsResponse ==
    \A k \in DOMAIN tasks :
        LET t == Stored(k)
        IN  /\ t.state = COMPLETED
                 => /\ t.history # <<>>
                    /\ t.message = Some(Last(t.history))
                    /\ Last(t.history).role = AGENT
            /\ t.state \in {SUBMITTED, WORKING, FAILED, CANCELED}
                 => t.message = None

\* witness of C37: two sendTaskMessage calls on one task that both began
\* before either Handler returned have ended, the task COMPLETED
C37_Witness ==
    \E p \in Procs, q \in Procs :
        /\ p # q
        /\ frame[p].op = "send_task_message" /\ frame[p].result = RETURN
        /\ frame[q].op = "send_task_message" /\ frame[q].result = RETURN
        /\ frame[p].task_id = frame[q].task_id
        /\ LET t == Stored(frame[p].task_id)
           IN  /\ t.state = COMPLETED
               /\ Len(t.history) = 5
               /\ t.history[2].role = USER /\ t.history[3].role = USER
               /\ t.history[4].role = AGENT /\ t.history[5].role = AGENT

\* an operation of caller p has ended with an error
Failed(p) == frame[p].pc = "done" /\ frame[p].result # RETURN

ClaimedStatus(result) ==
    CASE result = RETURN -> 200
      [] result = TaskNotFoundException -> 404
      [] result \in {TaskNotCancelableException, InvalidRequestException} -> 400
      [] OTHER -> 500

\* C34: HTTP status mapping at the transport boundary: an engine failure of
\* kind NotFound is reported as 404, NotCancelable or InvalidRequest as 400,
\* and InternalError or any other/unclassified exception as 500, for every
\* non-streaming route (card, message/send, tasks, tasks/{id},
\* tasks/{id}/send, tasks/{id}/cancel).
C34_HttpStatusMapping ==
    /\ [](\A p \in Procs :
            /\ frame[p].status_code # None
                 => /\ frame[p].op \in RouteOps
                    /\ frame[p].pc = "done"
                    /\ frame[p].status_code = Some(ClaimedStatus(frame[p].result))
            /\ (frame[p].pc = "done" /\ frame[p].status_code = None)
                 => ENABLED fastapi_respond(p))
    /\ [][\A p \in Procs :
            (frame[p].status_code = None /\ frame'[p].status_code # None)
                => /\ frame'[p].pc = "done"
                   /\ frame[p].pc = "done" => frame'[p].result = frame[p].result
                   /\ frame'[p].status_code = Some(ClaimedStatus(frame'[p].result))]_vars

\* witness of C34: GET /tasks/{id} of an unknown id was answered 404 and
\* POST /tasks/{id}/cancel of the COMPLETED task 400
C34_Witness ==
    \E p \in Procs, q \in Procs :
        /\ frame[p].op = "get_task"
        /\ frame[p].result = TaskNotFoundException
        /\ frame[p].status_code = Some(404)
        /\ frame[q].op = "cancel_task"
        /\ frame[q].result = TaskNotCancelableException
        /\ frame[q].status_code = Some(400)

\* an operation of caller p on task id is in flight
InFlight(p, id) == ~ CanCall(p) /\ frame[p].task_id = id

\* task id entered WORKING through an operation of createTask, sendTaskMessage
\* or sendTaskMessageStream (each of them writes WORKING in its first step)
EnteredWorking(id) ==
    \E p \in Procs :
        /\ frame[p].op \in {"create_task", "send_task_message",
                             "send_task_message_stream"}
        /\ frame[p].pc # "idle"
        /\ frame[p].task_id = id
        /\ frame[p].result # TaskNotFoundException

\* C38: progress to a terminal state: with a Message Handler registered, every
\* Handler invocation ending and every stream consumed to its end, under fair
\* scheduling every task that enters WORKING through createTask,
\* sendTaskMessage or sendTaskMessageStream eventually has a stored state in
\* {COMPLETED, FAILED, CANCELED}, and once no operation on the task is in
\* flight its stored state is terminal.
C38_ProgressToTerminal ==
    /\ \A id \in 1..(MaxTasks + 1) :
            (id \in DOMAIN tasks /\ Stored(id).state = WORKING)
                ~> (id \in DOMAIN tasks /\ Stored(id).state \in Terminal)
    /\ [](\A id \in DOMAIN tasks :
            (EnteredWorking(id) /\ \A p \in Procs : ~ InFlight(p, id))
                => Stored(id).state \in Terminal)

\* witness of C38: a createTask is suspended in its Handler, its task WORKING,
\* while a sendTaskMessage on the stored task has ended and left it terminal
C38_Witness ==
    \E p \in Procs, q \in Procs :
        /\ frame[p].op = "create_task"
        /\ frame[p].pc = "on_message_received"
        /\ Stored(frame[p].task_id).state = WORKING
        /\ frame[q].op = "send_task_message"
        /\ frame[q].pc = "done"
        /\ frame[q].task_id = 1
        /\ Stored(1).state \in Terminal
        /\ handlers.on_message_received

====
